---- MODULE Spec2Model ----
(***************************************************************************)
(* A model of the flight-analysis application: the coefficient pipeline    *)
(* (the variants of calculateAerodynamicCoefficients), the window          *)
(* selectors (FlightBoundsSelector), the parameter form and the pages      *)
(* that hold the session state (Index, AnalyzeFlight).                     *)
(*                                                                         *)
(* JavaScript numbers are modelled as decimal floating-point values with   *)
(* `Digits' significant digits, rounded to nearest after every operation,  *)
(* together with NaN, +Infinity, -Infinity and undefined.  Overflow to     *)
(* Infinity and underflow to 0 happen at the exponents of an IEEE double.  *)
(* The sign of zero is not modelled.                                       *)
(***************************************************************************)
EXTENDS Integers, Sequences, FiniteSets, TLC

(***************************************************************************)
(* Numbers                                                                 *)
(***************************************************************************)
Digits == 4
MaxExp10 == 308
MinExp10 == 0 - 324

Pow10(n) ==
  <<1, 10, 100, 1000, 10000, 100000, 1000000, 10000000, 100000000, 1000000000>>[n + 1]

AbsInt(x) == IF x < 0 THEN 0 - x ELSE x
SgnInt(x) == IF x < 0 THEN 0 - 1 ELSE IF x > 0 THEN 1 ELSE 0
MinInt(a, b) == IF a < b THEN a ELSE b
MaxInt(a, b) == IF a > b THEN a ELSE b

NDigits(a) ==
  IF a < 10 THEN 1 ELSE IF a < 100 THEN 2 ELSE IF a < 1000 THEN 3
  ELSE IF a < 10000 THEN 4 ELSE IF a < 100000 THEN 5 ELSE IF a < 1000000 THEN 6
  ELSE IF a < 10000000 THEN 7 ELSE IF a < 100000000 THEN 8
  ELSE IF a < 1000000000 THEN 9 ELSE 10

NaN == [k |-> "nan", m |-> 0, e |-> 0]
Undefined == [k |-> "undefined", m |-> 0, e |-> 0]
Inf(s) == [k |-> "inf", m |-> s, e |-> 0]
Zero == [k |-> "fin", m |-> 0, e |-> 0]

\* The number m * 10^e, rounded to Digits significant digits: the magnitude a
\* is shifted by sh digits and rounded, a carry out of the top digit is
\* taken back, and the exponent's range is checked.
NormPack(s, q, ee) ==
  IF ee + Digits - 1 > MaxExp10 THEN Inf(s)
  ELSE IF ee + Digits - 1 < MinExp10 THEN Zero
  ELSE [k |-> "fin", m |-> s * q, e |-> ee]

NormCarry(s, q0, ee) ==
  IF q0 >= Pow10(Digits) THEN NormPack(s, q0 \div 10, ee + 1) ELSE NormPack(s, q0, ee)

NormShift(s, a, e, sh) ==
  NormCarry(s,
            IF sh > 0 THEN (a + Pow10(sh) \div 2) \div Pow10(sh) ELSE a * Pow10(0 - sh),
            e + sh)

Norm(m, e) ==
  IF m = 0 THEN Zero
  ELSE NormShift(SgnInt(m), AbsInt(m), e, NDigits(AbsInt(m)) - Digits)

\* A numeric literal of the source, m * 10^e.
Lit(m, e) == Norm(m, e)
One == Lit(1, 0)

IsNaN(x) == x.k \in {"nan", "undefined"}
IsFinite(x) == x.k = "fin"
Sign(x) == SgnInt(x.m)
Neg(x) == IF x.k = "undefined" THEN NaN ELSE [x EXCEPT !.m = 0 - x.m]

AddFinite(x, y) ==
  IF x.m = 0 THEN y
  ELSE IF y.m = 0 THEN x
  ELSE LET hi == IF x.e >= y.e THEN x ELSE y
           lo == IF x.e >= y.e THEN y ELSE x
           d == hi.e - lo.e
       IN IF d > Digits + 1 THEN hi ELSE Norm(hi.m * Pow10(d) + lo.m, lo.e)

Add(x, y) ==
  IF x.k = "fin"
  THEN (IF y.k = "fin" THEN AddFinite(x, y) ELSE IF IsNaN(y) THEN NaN ELSE y)
  ELSE IF IsNaN(x) \/ IsNaN(y) THEN NaN
  ELSE IF y.k = "inf" /\ y.m # x.m THEN NaN
  ELSE x

Sub(x, y) == Add(x, Neg(y))

Mul(x, y) ==
  IF x.k = "fin" /\ y.k = "fin" THEN Norm(x.m * y.m, x.e + y.e)
  ELSE IF IsNaN(x) \/ IsNaN(y) THEN NaN
  ELSE IF x.m = 0 \/ y.m = 0 THEN NaN
  ELSE Inf(SgnInt(x.m) * SgnInt(y.m))

Div(x, y) ==
  IF x.k = "fin" /\ y.k = "fin"
  THEN (IF y.m = 0 THEN (IF x.m = 0 THEN NaN ELSE Inf(SgnInt(x.m)))
        ELSE Norm(SgnInt(x.m) * SgnInt(y.m)
                    * ((AbsInt(x.m) * Pow10(Digits + 1)) \div AbsInt(y.m)),
                  x.e - y.e - (Digits + 1)))
  ELSE IF IsNaN(x) \/ IsNaN(y) THEN NaN
  ELSE IF x.k = "inf"
       THEN (IF y.k = "inf" THEN NaN ELSE Inf(IF y.m < 0 THEN 0 - x.m ELSE x.m))
  ELSE Zero

\* the integer square root of n < 2^30, found 5 bits at a time from the top:
\* the largest base + d * step whose square does not exceed n
SqrtStep(n, base, step) ==
  base + step * (CHOOSE d \in 0..31 :
                   /\ (base + d * step) * (base + d * step) <= n
                   /\ (d = 31 \/ (base + (d + 1) * step) * (base + (d + 1) * step) > n))
ISqrt(n) == SqrtStep(n, SqrtStep(n, SqrtStep(n, 0, 1024), 32), 1)

\* Math.sqrt
Sqrt(x) ==
  IF x.k = "fin"
  THEN (IF x.m < 0 THEN NaN
        ELSE IF x.m = 0 THEN Zero
        ELSE IF x.e % 2 = 0 THEN Norm(ISqrt(x.m * Pow10(Digits)), (x.e - Digits) \div 2)
        ELSE Norm(ISqrt(x.m * Pow10(Digits + 1)), (x.e - Digits - 1) \div 2))
  ELSE IF x.k = "inf" /\ x.m > 0 THEN x
  ELSE NaN

\* Math.abs
Abs(x) == IF IsNaN(x) THEN NaN ELSE [x EXCEPT !.m = AbsInt(x.m)]

\* x < y and x > y: false as soon as one side is NaN.
Lt(x, y) ==
  /\ x.k \notin {"nan", "undefined"}
  /\ y.k \notin {"nan", "undefined"}
  /\ x # y
  /\ Sign(Sub(x, y)) < 0
Gt(x, y) == Lt(y, x)
Le(x, y) == ~IsNaN(x) /\ ~IsNaN(y) /\ (x = y \/ Lt(x, y))
Ge(x, y) == Le(y, x)

\* Math.max
Max(x, y) == IF IsNaN(x) \/ IsNaN(y) THEN NaN ELSE IF Lt(x, y) THEN y ELSE x

\* a || b on numbers: 0, NaN and undefined are falsy.
Truthy(x) == x.k = "inf" \/ (x.k = "fin" /\ x.m # 0)
Or(a, b) == IF Truthy(a) THEN a ELSE b

\* const x = value; rest, written Bind([x \in {value} |-> rest]): a declaration's
\* value is computed once, where the declaration stands, and the statements
\* after it read that value.
Bind(f) == f[CHOOSE x \in DOMAIN f : TRUE]

\* Math.floor of a finite number, as an integer
FloorInt(x) ==
  IF x.e >= 0 THEN x.m * Pow10(x.e)
  ELSE IF 0 - x.e > 9 THEN (IF x.m < 0 THEN 0 - 1 ELSE 0)
  ELSE x.m \div Pow10(0 - x.e)

\* parseFloat of a text given as its characters: an optional sign, digits, an
\* optional point and digits; it stops at the first character that does not
\* fit and gives NaN when it has read no digit.
DigitChars == <<"0", "1", "2", "3", "4", "5", "6", "7", "8", "9">>
IsDigit(c) == \E d \in 1..10 : DigitChars[d] = c
DigitValue(c) == (CHOOSE d \in 1..10 : DigitChars[d] = c) - 1

RECURSIVE ScanDigits(_, _, _, _)
ScanDigits(chars, i, m, n) ==
  IF i <= Len(chars) /\ IsDigit(chars[i])
  THEN ScanDigits(chars, i + 1, 10 * m + DigitValue(chars[i]), n + 1)
  ELSE [m |-> m, n |-> n, next |-> i]

parseFloat(chars) ==
  LET signed == Len(chars) > 0 /\ chars[1] \in {"-", "+"}
      sign == IF signed /\ chars[1] = "-" THEN 0 - 1 ELSE 1
      int == ScanDigits(chars, IF signed THEN 2 ELSE 1, 0, 0)
      frac == IF int.next <= Len(chars) /\ chars[int.next] = "."
              THEN ScanDigits(chars, int.next + 1, 0, 0)
              ELSE [m |-> 0, n |-> 0, next |-> int.next]
  IN IF int.n + frac.n = 0 THEN NaN
     ELSE Norm(sign * (int.m * Pow10(frac.n) + frac.m), 0 - frac.n)

(***************************************************************************)
(* Vectors                                                                 *)
(***************************************************************************)
Zero3 == <<Zero, Zero, Zero>>

vectorMagnitude(v) ==
  Sqrt(Add(Add(Mul(v[1], v[1]), Mul(v[2], v[2])), Mul(v[3], v[3])))

dotProduct(a, b) ==
  Add(Add(Mul(a[1], b[1]), Mul(a[2], b[2])), Mul(a[3], b[3]))

(***************************************************************************)
(* Samples: a point is a function from its column names to numbers; a      *)
(* column the point does not have reads as undefined.                      *)
(***************************************************************************)
Get(point, key) == IF key \in DOMAIN point THEN point[key] ELSE Undefined

\* point[k1] || point[k2] || ... || default: the first truthy column, else the default
OrChain(point, keys, default) ==
  LET found == SelectSeq(keys, LAMBDA key : Truthy(Get(point, key)))
  IN IF found = <<>> THEN default ELSE Get(point, Head(found))

\* a slice that stops one row early
SliceDropsLast(data, start, end) ==
  IF start + 1 > end - 1 THEN <<>> ELSE SubSeq(data, start + 1, MinInt(end - 1, Len(data)))

\* data.slice(start, end) for integer arguments
Slice(data, start, end) ==
  LET n == Len(data)
      s == IF start < 0 THEN MaxInt(n + start, 0) ELSE MinInt(start, n)
      t == IF end < 0 THEN MaxInt(n + end, 0) ELSE MinInt(end, n)
  IN IF s >= t THEN <<>> ELSE SubSeq(data, s + 1, t)

AccelKeysX == <<"Linear Accel X", "linear_accel_x", "accelX", "accel_x", "accel x", "ax", "AccelX">>
AccelKeysY == <<"Linear Accel Y", "linear_accel_y", "accelY", "accel_y", "accel y", "ay", "AccelY">>
AccelKeysZ == <<"Linear Accel Z", "linear_accel_z", "accelZ", "accel_z", "accel z", "az", "AccelZ">>

extractSensorData(point) ==
  <<OrChain(point, AccelKeysX, Zero), OrChain(point, AccelKeysY, Zero),
    OrChain(point, AccelKeysZ, Zero)>>

Coefficient(t, cl, cd, vel, q) ==
  [timestamp |-> t, CL |-> cl, CD |-> cd, velocity |-> vel, dynamicPressure |-> q]

\* a pushed record with the locals it was computed from: the resolved
\* acceleration, the velocity vector and the force
WithLocals(coefficient, a, v, F_aero) ==
  coefficient @@ [lin_accel |-> a, v |-> v, F_aero |-> F_aero]

\* the records as the caller gets them
Coefficients(pushed) ==
  [i \in 1..Len(pushed) |->
     Coefficient(pushed[i].timestamp, pushed[i].CL, pushed[i].CD, pushed[i].velocity,
                 pushed[i].dynamicPressure)]

EPS == Lit(1, 0 - 8)
Half == Lit(5, 0 - 1)

(***************************************************************************)
(* calculateAerodynamicCoefficients, acceleration variant                  *)
(***************************************************************************)
\* dt[i]: the first is 0, the others the raw timestamp difference
DtRaw(time) ==
  [i \in 1..Len(time) |-> IF i = 1 THEN Zero ELSE Sub(time[i], time[i - 1])]

\* the integration that would take the first sample's acceleration as the
\* first velocity
RECURSIVE EulerFromFirst(_, _, _)
EulerFromFirst(lin_accel, dt, v) ==
  IF Len(v) = Len(lin_accel) THEN v
  ELSE IF Len(v) = 0 THEN EulerFromFirst(lin_accel, dt, <<lin_accel[1]>>)
  ELSE LET i == Len(v) + 1
           p == v[Len(v)]
       IN EulerFromFirst(lin_accel, dt,
                         Append(v, <<Add(p[1], Mul(lin_accel[i][1], dt[i])),
                                     Add(p[2], Mul(lin_accel[i][2], dt[i])),
                                     Add(p[3], Mul(lin_accel[i][3], dt[i]))>>))

\* forward Euler: v[1] = 0, v[i] = v[i-1] + a[i] * dt[i]; v is the array built so far
RECURSIVE EulerVelocity(_, _, _)
EulerVelocity(lin_accel, dt, v) ==
  IF Len(v) = Len(lin_accel) THEN v
  ELSE IF Len(v) = 0 THEN EulerVelocity(lin_accel, dt, <<Zero3>>)
  ELSE LET i == Len(v) + 1
           p == v[Len(v)]
       IN EulerVelocity(lin_accel, dt,
                        Append(v, <<Add(p[1], Mul(lin_accel[i][1], dt[i])),
                                    Add(p[2], Mul(lin_accel[i][2], dt[i])),
                                    Add(p[3], Mul(lin_accel[i][3], dt[i]))>>))

\* the decomposition of F_aero along v and across it, with the 1e-8 guards
DragLift(F_aero, v, v_mag) ==
  Bind([drag_proj \in {Div(dotProduct(F_aero, v), Add(v_mag, EPS))} |->
    LET drag_unit == [j \in 1..3 |-> Div(v[j], Add(v_mag, EPS))]
    IN Bind([D_vec \in {<<Mul(drag_proj, drag_unit[1]), Mul(drag_proj, drag_unit[2]),
              Mul(drag_proj, drag_unit[3])>>} |->
         Bind([L_vec \in {<<Sub(F_aero[1], D_vec[1]), Sub(F_aero[2], D_vec[2]),
                             Sub(F_aero[3], D_vec[3])>>} |->
           [D_vec |-> D_vec, L_vec |-> L_vec,
            L_mag |-> vectorMagnitude(L_vec), D_mag |-> vectorMagnitude(D_vec)]])])])

ForceWithoutMass(aircraftParams, a) == a

Force(aircraftParams, a) ==
  <<Mul(aircraftParams.aircraftWeight, a[1]), Mul(aircraftParams.aircraftWeight, a[2]),
    Mul(aircraftParams.aircraftWeight, a[3])>>

DynamicPressureWithoutHalf(aircraftParams, speed) ==
  Mul(Mul(aircraftParams.airDensity, speed), speed)

DynamicPressure(aircraftParams, speed) ==
  Mul(Mul(Mul(Half, aircraftParams.airDensity), speed), speed)

CoefficientAccel(flightData, lin_accel, velocities, aircraftParams, i) ==
  LET v == velocities[i]
      v_mag == vectorMagnitude(v)
      F_aero == Force(aircraftParams, lin_accel[i])
      q_dyn == DynamicPressure(aircraftParams, v_mag)
      den == Add(Mul(q_dyn, aircraftParams.wingSurfaceArea), EPS)
  IN IF Gt(v_mag, EPS)
     THEN Bind([dl \in {DragLift(F_aero, v, v_mag)} |->
            WithLocals(Coefficient(flightData[i].timestamp, Div(dl.L_mag, den),
                                   Div(dl.D_mag, den), v_mag, q_dyn),
                       lin_accel[i], v, F_aero) @@ dl])
     ELSE WithLocals(Coefficient(flightData[i].timestamp, Zero, Zero, v_mag, q_dyn),
                     lin_accel[i], v, F_aero)

Samples_accel(d, b, aircraftParams) ==
  LET flightData == Slice(d, b.flightStart, b.flightEnd + 1)
      time == [i \in 1..Len(flightData) |-> flightData[i].timestamp]
      lin_accel == [i \in 1..Len(flightData) |-> extractSensorData(flightData[i])]
      dt == DtRaw(time)
  IN IF Len(flightData) = 0 THEN <<>>
     ELSE Bind([v \in {EulerVelocity(lin_accel, dt, <<>>)} |->
            [i \in 1..Len(flightData) |->
               CoefficientAccel(flightData, lin_accel, v, aircraftParams, i)]])

calculateAerodynamicCoefficients_accel(d, b, aircraftParams) ==
  Coefficients(Samples_accel(d, b, aircraftParams))

(***************************************************************************)
(* calculateAerodynamicCoefficients, time-filter variant, and the          *)
(* AnalyzeFlight page that calls it with the timestamps of the window's    *)
(* two end rows                                                            *)
(***************************************************************************)
CoefficientTime(filteredData, lin_accel, velocities, aircraftParams, i) ==
  LET v == velocities[i]
      v_mag == vectorMagnitude(v)
      F_aero == Force(aircraftParams, lin_accel[i])
      q_dyn == DynamicPressure(aircraftParams, v_mag)
      den == Add(Mul(q_dyn, aircraftParams.wingSurfaceArea), EPS)
  IN Bind([dl \in {DragLift(F_aero, v, v_mag)} |->
       WithLocals(Coefficient(filteredData[i].timestamp, Div(dl.L_mag, den),
                              Div(dl.D_mag, den), v_mag, q_dyn),
                  lin_accel[i], v, F_aero) @@ dl])

InTimeBounds(point, startTime, endTime) ==
  Ge(point.timestamp, startTime) /\ Le(point.timestamp, endTime)

Samples_time(d, startTime, endTime, aircraftParams) ==
  LET filteredData == SelectSeq(d, LAMBDA point : InTimeBounds(point, startTime, endTime))
      time == [i \in 1..Len(filteredData) |-> filteredData[i].timestamp]
      lin_accel == [i \in 1..Len(filteredData) |-> extractSensorData(filteredData[i])]
      dt == DtRaw(time)
  IN IF Len(filteredData) = 0 THEN <<>>
     ELSE Bind([v \in {EulerVelocity(lin_accel, dt, <<>>)} |->
            [i \in 1..Len(filteredData) |->
               CoefficientTime(filteredData, lin_accel, v, aircraftParams, i)]])

calculateAerodynamicCoefficients_time(d, startTime, endTime, aircraftParams) ==
  Coefficients(Samples_time(d, startTime, endTime, aircraftParams))

\* data.data[index] is undefined outside 0..length-1, and reading .timestamp of
\* undefined throws a TypeError while the page renders.
RowThrows(d, index) == index < 0 \/ index >= Len(d)

(***************************************************************************)
(* calculateAerodynamicCoefficients, dt-clamped variant                    *)
(***************************************************************************)
AccelKeysX2 == <<"linear_accel_x", "Linear Accel X", "accelX", "accel_x", "accel x", "ax", "AccelX">>
AccelKeysY2 == <<"linear_accel_y", "Linear Accel Y", "accelY", "accel_y", "accel y", "ay", "AccelY">>
AccelKeysZ2 == <<"linear_accel_z", "Linear Accel Z", "accelZ", "accel_z", "accel z", "az", "AccelZ">>

extractSensorData_clamped(point) ==
  <<OrChain(point, AccelKeysX2, Zero), OrChain(point, AccelKeysY2, Zero),
    OrChain(point, AccelKeysZ2, Zero)>>

Thousand == Lit(1, 3)
Milli == Lit(1, 0 - 3)
Tenth == Lit(1, 0 - 1)

\* dt[i]: the first is 0, the others max(0.001, difference / 1000)
DtClamped(timeData) ==
  [i \in 1..Len(timeData) |->
     IF i = 1 THEN Zero ELSE Max(Milli, Div(Sub(timeData[i], timeData[i - 1]), Thousand))]

CoefficientClamped(flightData, accelData, velocities, aircraftParams, i) ==
  LET velocity == velocities[i]
      velocityMagnitude == vectorMagnitude(velocity)
      F_aero == Force(aircraftParams, accelData[i])
      q_dyn == DynamicPressure(aircraftParams, velocityMagnitude)
      den == Mul(q_dyn, aircraftParams.wingSurfaceArea)
  IN IF Gt(velocityMagnitude, Tenth)
     THEN Bind([dl \in {DragLift(F_aero, velocity, velocityMagnitude)} |->
            WithLocals(Coefficient(flightData[i].timestamp,
                                   IF Gt(q_dyn, EPS) THEN Div(dl.L_mag, den) ELSE Zero,
                                   IF Gt(q_dyn, EPS) THEN Div(dl.D_mag, den) ELSE Zero,
                                   velocityMagnitude, q_dyn),
                       accelData[i], velocity, F_aero) @@ dl])
     ELSE WithLocals(Coefficient(flightData[i].timestamp, Zero, Zero, velocityMagnitude, q_dyn),
                     accelData[i], velocity, F_aero)

Samples_clamped(d, b, aircraftParams) ==
  LET flightData == Slice(d, b.flightStart, b.flightEnd + 1)
      timeData == [i \in 1..Len(flightData) |-> flightData[i].timestamp]
      accelData == [i \in 1..Len(flightData) |-> extractSensorData_clamped(flightData[i])]
      dt == DtClamped(timeData)
  IN IF Len(flightData) = 0 THEN <<>>
     ELSE Bind([velocity \in {EulerVelocity(accelData, dt, <<>>)} |->
            [i \in 1..Len(flightData) |->
               CoefficientClamped(flightData, accelData, velocity, aircraftParams, i)]])

calculateAerodynamicCoefficients_clamped(d, b, aircraftParams) ==
  Coefficients(Samples_clamped(d, b, aircraftParams))

(***************************************************************************)
(* Math.exp, Math.sin, Math.acos: truncated series, evaluated in the       *)
(* model's arithmetic.  Sin is used for angles in [0, pi/2] and Acos       *)
(* for arguments in [0, 1] (slerp).                                        *)
(***************************************************************************)
RECURSIVE SeriesFrom(_, _, _, _, _)
\* sum of term, term*x/k, term*x^2/(k(k+1)), ...: at most `left' more terms, fewer
\* when a term no longer changes the sum
SeriesFrom(x, term, k, left, acc) ==
  IF left = 0 THEN acc
  ELSE LET t == Div(Mul(term, x), Lit(k, 0))
       IN IF Add(acc, t) = acc THEN acc
          ELSE SeriesFrom(x, t, k + 1, left - 1, Add(acc, t))

RECURSIVE Exp(_)
Exp(x) ==
  IF IsNaN(x) THEN NaN
  ELSE IF x.k = "inf" THEN (IF x.m > 0 THEN x ELSE Zero)
  ELSE IF Gt(x, Lit(1, 3)) THEN Inf(1)
  ELSE IF Lt(x, Lit(0 - 1, 3)) THEN Zero
  ELSE IF Gt(Abs(x), One) THEN LET h == Exp(Mul(x, Half)) IN Mul(h, h)
  ELSE SeriesFrom(x, One, 1, 8, One)

RECURSIVE SinSeries(_, _, _, _, _)
\* x - x^3/3! + x^5/5! - ...: each term is the one before times -x^2 / (k (k + 1))
SinSeries(x2, term, k, left, acc) ==
  IF left = 0 THEN acc
  ELSE LET t == Neg(Div(Mul(term, x2), Lit(k * (k + 1), 0)))
       IN IF Add(acc, t) = acc THEN acc
          ELSE SinSeries(x2, t, k + 2, left - 1, Add(acc, t))

Sin(x) == IF ~IsFinite(x) THEN NaN ELSE SinSeries(Mul(x, x), x, 2, 4, x)

Acos(x) ==
  IF IsNaN(x) \/ Gt(Abs(x), One) THEN NaN
  ELSE IF Lt(x, Zero) THEN NaN
  ELSE LET p == Add(Lit(1571, 0 - 3),
                    Mul(x, Add(Lit(0 - 2121, 0 - 4),
                               Mul(x, Add(Lit(7426, 0 - 5), Mul(x, Lit(0 - 1873, 0 - 5)))))))
       IN Mul(Sqrt(Sub(One, x)), p)

PI == Lit(3142, 0 - 3)

(***************************************************************************)
(* Quaternions and rotations                                               *)
(***************************************************************************)
Quat(w, x, y, z) == [w |-> w, x |-> x, y |-> y, z |-> z]
IdentityQuat == Quat(One, Zero, Zero, Zero)

QuatDot(q1, q2) ==
  Add(Add(Add(Mul(q1.w, q2.w), Mul(q1.x, q2.x)), Mul(q1.y, q2.y)), Mul(q1.z, q2.z))

\* a * q1 + b * q2, component by component
QuatMix(q1, q2, a, b) ==
  Quat(Add(Mul(a, q1.w), Mul(b, q2.w)), Add(Mul(a, q1.x), Mul(b, q2.x)),
       Add(Mul(a, q1.y), Mul(b, q2.y)), Add(Mul(a, q1.z), Mul(b, q2.z)))

QuatDivide(q, norm) == Quat(Div(q.w, norm), Div(q.x, norm), Div(q.y, norm), Div(q.z, norm))

\* the nearly parallel branch: linear interpolation, then normalisation
NormalizedLerp(q1, q2, t) ==
  Bind([result \in {Quat(Add(q1.w, Mul(t, Sub(q2.w, q1.w))), Add(q1.x, Mul(t, Sub(q2.x, q1.x))),
            Add(q1.y, Mul(t, Sub(q2.y, q1.y))), Add(q1.z, Mul(t, Sub(q2.z, q1.z))))} |->
         Bind([norm \in {Sqrt(QuatDot(result, result))} |-> QuatDivide(result, norm)])])

\* the spherical branch
SlerpByAngle(q1, q2, t, angle) ==
  Bind([sinAngle \in {Sin(angle)} |->
    Bind([a \in {Div(Sin(Mul(Sub(One, t), angle)), sinAngle)} |->
      Bind([b \in {Div(Sin(Mul(t, angle)), sinAngle)} |-> QuatMix(q1, q2, a, b)])])])

slerp(q1, q2, t) ==
  Bind([dot \in {QuatDot(q1, q2)} |->
    IF Gt(Abs(dot), Lit(9995, 0 - 4))
    THEN NormalizedLerp(q1, q2, t)
    ELSE Bind([angle \in {Acos(Abs(dot))} |-> SlerpByAngle(q1, q2, t, angle)])])

RECURSIVE SlerpChain(_, _, _)
SlerpChain(quaternions, i, result) ==
  IF i > Len(quaternions) THEN result
  ELSE SlerpChain(quaternions, i + 1,
                  slerp(result, quaternions[i], Div(One, Lit(i, 0))))

\* the loop index i of the source is i - 1 here, so its 1 / (i + 1) is 1 / i
averageQuaternion(quaternions) ==
  IF Len(quaternions) = 0 THEN IdentityQuat
  ELSE IF Len(quaternions) = 1 THEN quaternions[1]
  ELSE SlerpChain(quaternions, 2, quaternions[1])

Two == Lit(2, 0)

quaternionToRotationMatrix(q) ==
  LET w == q.w
      x == q.x
      y == q.y
      z == q.z
  IN << <<Sub(One, Mul(Two, Add(Mul(y, y), Mul(z, z)))),
          Mul(Two, Sub(Mul(x, y), Mul(w, z))),
          Mul(Two, Add(Mul(x, z), Mul(w, y)))>>,
        <<Mul(Two, Add(Mul(x, y), Mul(w, z))),
          Sub(One, Mul(Two, Add(Mul(x, x), Mul(z, z)))),
          Mul(Two, Sub(Mul(y, z), Mul(w, x)))>>,
        <<Mul(Two, Sub(Mul(x, z), Mul(w, y))),
          Mul(Two, Add(Mul(y, z), Mul(w, x))),
          Sub(One, Mul(Two, Add(Mul(x, x), Mul(y, y))))>> >>

multiplyMatrices(a, b) ==
  [i \in 1..3 |-> [j \in 1..3 |->
     Add(Add(Add(Zero, Mul(a[i][1], b[1][j])), Mul(a[i][2], b[2][j])), Mul(a[i][3], b[3][j]))]]

TransformRow(row, vector) ==
  Add(Add(Mul(row[1], vector[1]), Mul(row[2], vector[2])), Mul(row[3], vector[3]))

transformVector(matrix, vector) ==
  <<TransformRow(matrix[1], vector), TransformRow(matrix[2], vector),
    TransformRow(matrix[3], vector)>>

DivideBy(v, mag) == <<Div(v[1], mag), Div(v[2], mag), Div(v[3], mag)>>

normalizeVector(v) ==
  IF Gt(vectorMagnitude(v), Zero) THEN DivideBy(v, vectorMagnitude(v)) ELSE Zero3

(***************************************************************************)
(* butterworthFilter: alpha from the cut-off, then one pass over a copy    *)
(***************************************************************************)
FilterAlpha(cutoffHz, sampleRate) ==
  LET nyquist == Div(sampleRate, Two)
      normalizedCutoff == Div(cutoffHz, nyquist)
  IN Exp(Mul(Mul(Lit(0 - 2, 0), PI), normalizedCutoff))

\* a pass whose two weights do not add up to 1
RECURSIVE FilterPassUnweighted(_, _, _)
FilterPassUnweighted(filtered, alpha, i) ==
  IF i > Len(filtered) THEN filtered
  ELSE FilterPassUnweighted([filtered EXCEPT ![i] =
                               Add(Mul(alpha, filtered[i - 1]), filtered[i])],
                            alpha, i + 1)

\* a pass from the last element down: filtered[i - 1] is still unfiltered
\* when filtered[i] is computed
RECURSIVE FilterPassDescending(_, _, _)
FilterPassDescending(filtered, alpha, i) ==
  IF i > Len(filtered) THEN filtered
  ELSE LET j == Len(filtered) + 2 - i
       IN FilterPassDescending([filtered EXCEPT ![j] =
                                  Add(Mul(alpha, filtered[j - 1]),
                                      Mul(Sub(One, alpha), filtered[j]))],
                               alpha, i + 1)

RECURSIVE FilterPass(_, _, _)
\* filtered[i] = alpha * filtered[i - 1] + (1 - alpha) * filtered[i], i ascending
FilterPass(filtered, alpha, i) ==
  IF i > Len(filtered) THEN filtered
  ELSE FilterPass([filtered EXCEPT ![i] =
                     Add(Mul(alpha, filtered[i - 1]), Mul(Sub(One, alpha), filtered[i]))],
                  alpha, i + 1)

butterworthFilter(values, cutoffHz, sampleRate) ==
  Bind([alpha \in {FilterAlpha(cutoffHz, sampleRate)} |-> FilterPass(values, alpha, 2)])

\* coefficients.map((coeff, index) => ({...coeff, CL: filteredCL[index], CD: filteredCD[index]}))
ApplyFilter(coeffs, cutoffHz, sampleRate) ==
  LET filteredCL == butterworthFilter([i \in 1..Len(coeffs) |-> coeffs[i].CL], cutoffHz, sampleRate)
      filteredCD == butterworthFilter([i \in 1..Len(coeffs) |-> coeffs[i].CD], cutoffHz, sampleRate)
  IN [i \in 1..Len(coeffs) |->
        [coeffs[i] EXCEPT !.CL = filteredCL[i], !.CD = filteredCD[i]]]

(***************************************************************************)
(* calculateAerodynamicCoefficients, quaternion variant                    *)
(***************************************************************************)
PointQuat(point) ==
  Quat(Or(Get(point, "qw"), One), Or(Get(point, "qx"), Zero),
       Or(Get(point, "qy"), Zero), Or(Get(point, "qz"), Zero))

PointAccelBody(point) ==
  <<Or(Get(point, "accelX"), Zero), Or(Get(point, "accelY"), Zero),
    Or(Get(point, "accelZ"), Zero)>>

Scale(v, c) == <<Mul(v[1], c), Mul(v[2], c), Mul(v[3], c)>>

\* one pass of the loop body's velocity update (i > 0 in the source)
\* a drift suppression that does not look at the acceleration
VelocityQuatAlways(velocity, accel_earth, dt) ==
  Scale(<<Add(velocity[1], Mul(accel_earth[1], dt)), Add(velocity[2], Mul(accel_earth[2], dt)),
          Add(velocity[3], Mul(accel_earth[3], dt))>>, Lit(99, 0 - 2))

VelocityQuat(velocity, accel_earth, dt) ==
  LET v1 == <<Add(velocity[1], Mul(accel_earth[1], dt)), Add(velocity[2], Mul(accel_earth[2], dt)),
              Add(velocity[3], Mul(accel_earth[3], dt))>>
  IN IF Lt(vectorMagnitude(accel_earth), Half) THEN Scale(v1, Lit(99, 0 - 2)) ELSE v1

RecordQuat(point, velocity, accel_earth, aircraftParams) ==
  LET speed == vectorMagnitude(velocity)
      F_aero == Force(aircraftParams, accel_earth)
      q_dyn == DynamicPressure(aircraftParams, speed)
      den == Mul(q_dyn, aircraftParams.wingSurfaceArea)
  IN IF Lt(speed, Tenth)
     THEN WithLocals(Coefficient(point.timestamp, Zero, Zero, speed, Zero),
                     PointAccelBody(point), velocity, F_aero)
     ELSE Bind([v_hat \in {normalizeVector(velocity)} |->
          Bind([dragMagnitude \in {dotProduct(F_aero, v_hat)} |->
          Bind([drag \in {Scale(v_hat, Neg(dragMagnitude))} |->
          Bind([lift \in {<<Sub(F_aero[1], drag[1]), Sub(F_aero[2], drag[2]), Sub(F_aero[3], drag[3])>>} |->
            WithLocals(Coefficient(point.timestamp,
                        IF Gt(q_dyn, Zero) THEN Div(vectorMagnitude(lift), den) ELSE Zero,
                        IF Gt(q_dyn, Zero) THEN Div(Abs(dragMagnitude), den) ELSE Zero,
                        speed, q_dyn), PointAccelBody(point), velocity, F_aero)
              @@ [D_vec |-> drag, L_vec |-> lift, L_mag |-> vectorMagnitude(lift),
                  D_mag |-> Abs(dragMagnitude)]])])])])

RECURSIVE LoopQuat(_, _, _, _, _, _)
LoopQuat(flightData, R_b2e, aircraftParams, i, velocity, out) ==
  IF i > Len(flightData) THEN out
  ELSE LET point == flightData[i]
           R_qi == quaternionToRotationMatrix(PointQuat(point))
           Ri == multiplyMatrices(R_b2e, R_qi)
           dt == IF i > 1
                 THEN Div(Sub(point.timestamp, flightData[i - 1].timestamp), Thousand)
                 ELSE Lit(1, 0 - 2)
       IN Bind([accel_earth \in {transformVector(Ri, PointAccelBody(point))} |->
            Bind([v \in {IF i > 1 THEN VelocityQuat(velocity, accel_earth, dt) ELSE velocity} |->
                   LoopQuat(flightData, R_b2e, aircraftParams, i + 1, v,
                            Append(out, RecordQuat(point, v, accel_earth, aircraftParams)
                                          @@ [accel_earth |-> accel_earth, dt |-> dt]))])])

Samples_quat(d, b, aircraftParams) ==
  LET stationaryData == Slice(d, b.stationaryStart, b.stationaryEnd + 1)
      flightData == Slice(d, b.flightStart, b.flightEnd + 1)
      stationaryQuaternions == [i \in 1..Len(stationaryData) |-> PointQuat(stationaryData[i])]
  IN IF Len(stationaryData) = 0 \/ Len(flightData) = 0 THEN <<>>
     ELSE Bind([q0 \in {averageQuaternion(stationaryQuaternions)} |->
          Bind([R_b2e \in {quaternionToRotationMatrix(q0)} |->
            LoopQuat(flightData, R_b2e, aircraftParams, 1, Zero3, <<>>)])])

calculateAerodynamicCoefficients_quat(d, b, aircraftParams) ==
  ApplyFilter(Coefficients(Samples_quat(d, b, aircraftParams)), Lit(25, 0 - 1), Lit(100, 0))

(***************************************************************************)
(* calculateAerodynamicCoefficients, orientation variant with gravity      *)
(* removal                                                                 *)
(***************************************************************************)
OrientAccelKeys ==
  << <<"accelX", "accel_x", "accel x", "ax", "AccelX">>,
     <<"accelY", "accel_y", "accel y", "ay", "AccelY">>,
     <<"accelZ", "accel_z", "accel z", "az", "AccelZ">> >>

OrientQuatKeys ==
  [w |-> <<"qw", "q_w", "q w", "w", "QuatW">>, x |-> <<"qx", "q_x", "q x", "x", "QuatX">>,
   y |-> <<"qy", "q_y", "q y", "y", "QuatY">>, z |-> <<"qz", "q_z", "q z", "z", "QuatZ">>]

extractSensorData_orient(point) ==
  [accel |-> [j \in 1..3 |-> OrChain(point, OrientAccelKeys[j], Zero)],
   quaternion |-> Quat(OrChain(point, OrientQuatKeys.w, One), OrChain(point, OrientQuatKeys.x, Zero),
                       OrChain(point, OrientQuatKeys.y, Zero), OrChain(point, OrientQuatKeys.z, Zero))]

RECURSIVE SumAxis(_, _, _)
\* stationaryAccels.reduce((sum, a) => sum + a[j], 0)
SumAxis(accels, j, n) ==
  IF n = 0 THEN Zero ELSE Add(SumAxis(accels, j, n - 1), accels[n][j])

GravityMagnitude(stationaryData) ==
  LET stationaryAccels ==
        [i \in 1..Len(stationaryData) |-> extractSensorData_orient(stationaryData[i]).accel]
      n == Len(stationaryAccels)
  IN vectorMagnitude([j \in 1..3 |-> Div(SumAxis(stationaryAccels, j, n), Lit(n, 0))])

\* the sample's acceleration turned into the earth frame, gravity taken off z
AccelEarth(point, gravityMagnitude) ==
  LET sensor == extractSensorData_orient(point)
      a == transformVector(quaternionToRotationMatrix(sensor.quaternion), sensor.accel)
  IN <<a[1], a[2], Sub(a[3], gravityMagnitude)>>

TrapezoidStep(v, a, prev, dt) == Add(v, Mul(Mul(Half, Add(a, prev)), dt))

VelocityOrient(velocity, accel_earth, prevAccel_earth, dt) ==
  LET v1 == <<TrapezoidStep(velocity[1], accel_earth[1], prevAccel_earth[1], dt),
              TrapezoidStep(velocity[2], accel_earth[2], prevAccel_earth[2], dt),
              TrapezoidStep(velocity[3], accel_earth[3], prevAccel_earth[3], dt)>>
  IN IF Lt(vectorMagnitude(accel_earth), One)
     THEN Scale(v1, Exp(Div(Neg(dt), Lit(10, 0))))
     ELSE v1

RecordOrient(point, velocity, accel_earth, gravityMagnitude, aircraftParams) ==
  LET speed == vectorMagnitude(velocity)
      q_dyn == DynamicPressure(aircraftParams, speed)
      weightZ == Mul(Neg(aircraftParams.aircraftWeight), gravityMagnitude)
      totalForce == <<Mul(aircraftParams.aircraftWeight, accel_earth[1]),
                      Mul(aircraftParams.aircraftWeight, accel_earth[2]),
                      Add(Mul(aircraftParams.aircraftWeight, accel_earth[3]), weightZ)>>
      denominator == Mul(q_dyn, aircraftParams.wingSurfaceArea)
  IN IF Gt(speed, One) /\ Gt(q_dyn, Lit(1, 0 - 2))
     THEN Bind([v_hat \in {normalizeVector(velocity)} |->
          Bind([dragMagnitude \in {Neg(dotProduct(totalForce, v_hat))} |->
          Bind([liftForce \in {<<Add(totalForce[1], Mul(dragMagnitude, v_hat[1])),
                 Add(totalForce[2], Mul(dragMagnitude, v_hat[2])),
                 Add(totalForce[3], Mul(dragMagnitude, v_hat[3]))>>} |->
            \* the drag force is not a local of this variant: D_vec is the
            \* vector liftForce takes off totalForce
            WithLocals(Coefficient(point.timestamp,
                        Div(vectorMagnitude(liftForce), denominator),
                        Div(Abs(dragMagnitude), denominator),
                        speed, q_dyn),
                       extractSensorData_orient(point).accel, velocity, totalForce)
              @@ [D_vec |-> Scale(v_hat, Neg(dragMagnitude)), L_vec |-> liftForce,
                  L_mag |-> vectorMagnitude(liftForce), D_mag |-> Abs(dragMagnitude)]])])])
     ELSE WithLocals(Coefficient(point.timestamp, Zero, Zero, speed, q_dyn),
                     extractSensorData_orient(point).accel, velocity, totalForce)

RECURSIVE LoopOrient(_, _, _, _, _, _)
LoopOrient(flightData, gravityMagnitude, aircraftParams, i, velocity, out) ==
  IF i > Len(flightData) THEN out
  ELSE LET point == flightData[i]
           dt == IF i > 1
                 THEN Max(Milli, Div(Sub(point.timestamp, flightData[i - 1].timestamp), Thousand))
                 ELSE Lit(1, 0 - 2)
       IN Bind([accel_earth \in {AccelEarth(point, gravityMagnitude)} |->
            Bind([v \in {IF i > 1
                 THEN Bind([prevAccel_earth \in {AccelEarth(flightData[i - 1], gravityMagnitude)} |->
                             VelocityOrient(velocity, accel_earth, prevAccel_earth, dt)])
                 ELSE velocity} |->
                   LoopOrient(flightData, gravityMagnitude, aircraftParams, i + 1, v,
                              Append(out, RecordOrient(point, v, accel_earth, gravityMagnitude,
                                                       aircraftParams)
                                            @@ [accel_earth |-> accel_earth, dt |-> dt]))])])

Samples_orient(d, b, aircraftParams) ==
  LET stationaryData == Slice(d, b.stationaryStart, b.stationaryEnd + 1)
      flightData == Slice(d, b.flightStart, b.flightEnd + 1)
  IN IF Len(stationaryData) = 0 \/ Len(flightData) = 0 THEN <<>>
     ELSE Bind([gravityMagnitude \in {GravityMagnitude(stationaryData)} |->
            LoopOrient(flightData, gravityMagnitude, aircraftParams, 1, Zero3, <<>>)])

calculateAerodynamicCoefficients_orient(d, b, aircraftParams) ==
  ApplyFilter(Coefficients(Samples_orient(d, b, aircraftParams)), One, Lit(100, 0))

(***************************************************************************)
(* Inputs of the pipeline: recordings of up to MaxLen samples, one a       *)
(* second, and every window over them, the inverted and the out-of-range   *)
(* ones included.                                                          *)
(***************************************************************************)
MaxLen == 3

Fields(kind) ==
  CASE kind = "none" -> <<>>
    [] kind = "fwd" -> [accelX |-> Lit(2, 0)]
    [] kind = "back" -> [accelX |-> Lit(0 - 2, 0)]
    [] kind = "turn" -> [accelX |-> Lit(2, 0), qw |-> Half, qx |-> Half, qy |-> Half, qz |-> Half]
    [] kind = "huge" -> [accelX |-> Lit(1, 200)]
    [] kind = "slow" -> [accelX |-> Lit(5, 0 - 2)]
    [] kind = "flip" -> [accelX |-> Lit(2, 0), accelY |-> Lit(1, 0), qw |-> Lit(0 - 1, 0)]

Kinds == {"none", "fwd", "back", "turn"}
ExtremeKinds == {"fwd", "huge", "flip"}

\* sample i of a recording: one sample a second, timestamps in milliseconds
Point(kind, i) == [timestamp |-> Lit(i - 1, 3)] @@ Fields(kind)

DatasetsOf(kinds) ==
  UNION {{[i \in 1..n |-> Point(ks[i], i)] : ks \in [1..n -> kinds]} : n \in 0..MaxLen}

Datasets == DatasetsOf(Kinds)
ExtremeDatasets == DatasetsOf(ExtremeKinds)

StationaryWindows == {<<0, 0>>, <<0, 1>>, <<1, 0>>}

Windows ==
  {[flightStart |-> fs, flightEnd |-> fe, stationaryStart |-> st[1], stationaryEnd |-> st[2]] :
     fs \in 0..MaxLen, fe \in 0..MaxLen, st \in StationaryWindows}

ParamSets ==
  {[wingSurfaceArea |-> Lit(10, 0), aircraftWeight |-> Lit(15, 0 - 1),
    airDensity |-> Lit(1225, 0 - 3)]}

(***************************************************************************)
(* The analysis page: it holds a recording, a window and the aircraft      *)
(* parameters, and runs one of the pipeline variants over them, once.      *)
(***************************************************************************)
VARIABLES data, bounds, params, coefficients, variant, thrown, locals,
          form, sliders, times, notice, showAnalysis, activeTab,
          processedData, isProcessing, options, pendingProcess

vars == <<data, bounds, params, coefficients, variant, thrown, locals,
          form, sliders, times, notice, showAnalysis, activeTab,
          processedData, isProcessing, options, pendingProcess>>

\* the state of the processing page: the stored result, the busy flag, the
\* options of ProcessingControls and the runs of handleProcess that wait on
\* their timer
processing == <<processedData, isProcessing, options, pendingProcess>>

\* locals: what the last run of the pipeline held in its local variables when
\* it pushed each record (the resolved acceleration, the velocity vector, the
\* force and its decomposition), before any smoothing

\* the state of the input components: the parameter form's three texts, the
\* four slider positions, the two entered times, the last notification shown
ui == <<form, sliders, times, notice, showAnalysis, activeTab, processing>>

Chars10 == <<"1", "0">>
Chars1p5 == <<"1", ".", "5">>
Chars1p225 == <<"1", ".", "2", "2", "5">>

\* the value of a state that holds nothing yet
Null == [null |-> TRUE]

\* useState<ProcessingOptions>({...})
DefaultOptions ==
  [integrationMethod |-> "euler", gravityCompensation |-> TRUE]

DefaultForm ==
  [wingSurfaceArea |-> Chars10, aircraftWeight |-> Chars1p5, airDensity |-> Chars1p225]
DefaultSliders ==
  [flightStart |-> Lit(10, 0), flightEnd |-> Lit(90, 0),
   stationaryStart |-> Zero, stationaryEnd |-> Lit(8, 0)]
DefaultTimes == [startTime |-> Zero, endTime |-> Lit(10, 0)]

InputsAtRest ==
  /\ form = DefaultForm
  /\ sliders = DefaultSliders
  /\ times = DefaultTimes
  /\ notice = "none"
  /\ processedData = Null
  /\ isProcessing = FALSE
  /\ options = DefaultOptions
  /\ pendingProcess = <<>>

Init ==
  /\ data \in Datasets
  /\ bounds \in Windows
  /\ params \in ParamSets
  /\ coefficients = <<>>
  /\ variant = "none"
  /\ thrown = FALSE
  /\ locals = <<>>
  /\ InputsAtRest
  /\ showAnalysis = TRUE
  /\ activeTab = "results"

RunAccel ==
  /\ variant = "none"
  /\ locals' = Samples_accel(data, bounds, params)
  /\ coefficients' = Coefficients(locals')
  /\ variant' = "accel"
  /\ thrown' = FALSE
  /\ UNCHANGED <<data, bounds, params, ui>>

\* AnalyzeFlight reads the timestamps of rows flightStart and flightEnd while
\* rendering, before the effect that calls the time-filter variant runs.
RunTime ==
  /\ variant = "none"
  /\ variant' = "time"
  /\ IF RowThrows(data, bounds.flightStart) \/ RowThrows(data, bounds.flightEnd)
     THEN /\ thrown' = TRUE
          /\ locals' = <<>>
          /\ coefficients' = <<>>
     ELSE /\ thrown' = FALSE
          /\ locals' = Samples_time(data, data[bounds.flightStart + 1].timestamp,
                                    data[bounds.flightEnd + 1].timestamp, params)
          /\ coefficients' = Coefficients(locals')
  /\ UNCHANGED <<data, bounds, params, ui>>

RunClamped ==
  /\ variant = "none"
  /\ locals' = Samples_clamped(data, bounds, params)
  /\ coefficients' = Coefficients(locals')
  /\ variant' = "clamped"
  /\ thrown' = FALSE
  /\ UNCHANGED <<data, bounds, params, ui>>

RunQuat ==
  /\ variant = "none"
  /\ locals' = Samples_quat(data, bounds, params)
  /\ coefficients' = ApplyFilter(Coefficients(locals'), Lit(25, 0 - 1), Lit(100, 0))
  /\ variant' = "quat"
  /\ thrown' = FALSE
  /\ UNCHANGED <<data, bounds, params, ui>>

RunOrient ==
  /\ variant = "none"
  /\ locals' = Samples_orient(data, bounds, params)
  /\ coefficients' = ApplyFilter(Coefficients(locals'), One, Lit(100, 0))
  /\ variant' = "orient"
  /\ thrown' = FALSE
  /\ UNCHANGED <<data, bounds, params, ui>>

Next == RunAccel \/ RunTime \/ RunClamped \/ RunQuat \/ RunOrient

Spec == Init /\ [][Next]_vars

\* the same page over recordings with out-of-scale values
InitExtreme ==
  /\ data \in ExtremeDatasets
  /\ bounds \in Windows
  /\ params \in ParamSets
  /\ coefficients = <<>>
  /\ variant = "none"
  /\ thrown = FALSE
  /\ locals = <<>>
  /\ InputsAtRest
  /\ showAnalysis = TRUE
  /\ activeTab = "results"

SpecExtreme == InitExtreme /\ [][Next]_vars

(***************************************************************************)
(* Properties of the pipeline                                              *)
(***************************************************************************)
FlightSamples == Slice(data, bounds.flightStart, bounds.flightEnd + 1)
StationarySamples == Slice(data, bounds.stationaryStart, bounds.stationaryEnd + 1)
ValidFlightWindow ==
  0 <= bounds.flightStart /\ bounds.flightStart < bounds.flightEnd
    /\ bounds.flightEnd < Len(data)
Oriented == {"quat", "orient"}

\* C1: for a window with 0 <= flightStart < flightEnd < len(data) (and, in the
\* orientation-aware variants, a non-empty stationary window) a run returns
\* exactly flightEnd - flightStart + 1 records, in input order, the i-th with
\* the timestamp of the i-th sample of the window, smoothing included.
C1_OneRecordPerWindowSample ==
  (/\ variant # "none"
   /\ ValidFlightWindow
   /\ (variant \in Oriented => StationarySamples # <<>>))
  => /\ ~thrown
     /\ Len(coefficients) = bounds.flightEnd - bounds.flightStart + 1
     /\ \A i \in 1..Len(coefficients) :
          coefficients[i].timestamp = data[bounds.flightStart + i].timestamp

C1_Witness ==
  /\ variant = "quat"
  /\ ValidFlightWindow
  /\ bounds.flightStart = 1
  /\ StationarySamples # <<>>
  /\ Len(coefficients) = 2
  /\ coefficients[2].timestamp = data[3].timestamp

\* C2: in every variant, every returned record whose velocity is 0 has
\* CL = 0 and CD = 0 in the final output, the first record of the window and
\* the records of the smoothed variants included.
C2_ZeroVelocityZeroCoefficients ==
  \A i \in 1..Len(coefficients) :
    coefficients[i].velocity = Zero
      => (coefficients[i].CL = Zero /\ coefficients[i].CD = Zero)

\* C3: for all inputs, CL and CD of every output record are finite numbers.
C3_CoefficientsFinite ==
  \A i \in 1..Len(coefficients) :
    IsFinite(coefficients[i].CL) /\ IsFinite(coefficients[i].CD)

\* C9: in the orientation-aware variants a stationary window that selects
\* zero samples still gives one coefficient record per flight-window sample.
C9_EmptyStationaryStillRuns ==
  (/\ variant \in Oriented
   /\ StationarySamples = <<>>
   /\ ValidFlightWindow)
  => Len(coefficients) = bounds.flightEnd - bounds.flightStart + 1

\* C10: an empty recording, or a window that selects zero samples (out of
\* range or inverted), gives an empty coefficient series and never raises,
\* in the pipeline and in the page that derives the run's time bounds.
C10_EmptyWindowNeverRaises ==
  (variant # "none" /\ FlightSamples = <<>>)
  => (coefficients = <<>> /\ ~thrown)

(***************************************************************************)
(* The Index page and the aircraft parameter form                          *)
(***************************************************************************)
\* rawData, aircraftParams and flightBounds are null until they are set; an
\* uploaded file has a header and at least one row, so on this page the empty
\* recording stands for "no file yet".

UploadRecordings == {[i \in 1..n |-> Point("fwd", i)] : n \in 1..MaxLen}

FormTexts ==
  {Chars1p5, <<"0">>, <<"-", "3">>, <<"a", "b", "c">>, <<"2", "x">>, <<>>}

FormFields == {"wingSurfaceArea", "aircraftWeight", "airDensity"}

InitIndex ==
  /\ data = <<>>
  /\ bounds = Null
  /\ params = Null
  /\ coefficients = <<>>
  /\ variant = "none"
  /\ thrown = FALSE
  /\ locals = <<>>
  /\ InputsAtRest
  /\ showAnalysis = FALSE
  /\ activeTab = "upload"

handleFileUploaded(d) ==
  /\ ~showAnalysis
  /\ data' = d
  /\ bounds' = Null
  /\ showAnalysis' = FALSE
  /\ activeTab' = "parameters"
  /\ UNCHANGED <<params, coefficients, variant, thrown, processing, locals, form, sliders, times, notice>>

\* a tab can be opened when its trigger is not disabled
TabEnabled(tab) ==
  CASE tab = "upload" -> TRUE
    [] tab = "parameters" -> data # <<>>
    [] tab = "visualize" -> data # <<>> /\ params # Null
    [] tab = "results" -> bounds # Null

SelectTab(tab) ==
  /\ ~showAnalysis
  /\ TabEnabled(tab)
  /\ activeTab' = tab
  /\ UNCHANGED <<data, bounds, params, coefficients, variant, thrown, processing, locals,
                 form, sliders, times, notice, showAnalysis>>

\* the form is rendered on the parameters tab while no parameters are stored
FormShown == ~showAnalysis /\ activeTab = "parameters" /\ data # <<>> /\ params = Null

TypeField(field, text) ==
  /\ FormShown
  /\ form' = [form EXCEPT ![field] = text]
  /\ UNCHANGED <<data, bounds, params, coefficients, variant, thrown, processing, locals,
                 sliders, times, notice, showAnalysis, activeTab>>

\* a parsed field that keeps any NaN
InvalidNaNOnly(x) == IsNaN(x)

\* isNaN(x) || x <= 0
Invalid(x) == IsNaN(x) \/ Le(x, Zero)

handleSubmit ==
  LET surfaceArea == parseFloat(form.wingSurfaceArea)
      weight == parseFloat(form.aircraftWeight)
      density == parseFloat(form.airDensity)
  IN /\ FormShown
     /\ IF Invalid(surfaceArea) \/ Invalid(weight) \/ Invalid(density)
        THEN /\ notice' = "error"
             /\ UNCHANGED <<params, activeTab>>
        ELSE \* onParametersSubmit is Index.handleParametersSubmit
             /\ params' = [wingSurfaceArea |-> surfaceArea, aircraftWeight |-> weight,
                           airDensity |-> density]
             /\ activeTab' = "visualize"
             /\ notice' = "success"
     /\ UNCHANGED <<data, bounds, coefficients, variant, thrown, processing, locals, form, sliders, times,
                    showAnalysis>>

NextForm ==
  \/ \E d \in UploadRecordings : handleFileUploaded(d)
  \/ \E tab \in {"upload", "parameters", "visualize", "results"} : SelectTab(tab)
  \/ \E field \in FormFields, text \in FormTexts : TypeField(field, text)
  \/ handleSubmit

SpecForm == InitIndex /\ [][NextForm]_vars

\* C8: in every reachable state the stored aircraft parameters are null or
\* have wing area, weight and air density all strictly positive.
C8_StoredParametersPositive ==
  \/ params = Null
  \/ \A field \in FormFields : Gt(params[field], Zero)

C8_Witness ==
  /\ notice = "error"
  /\ params = Null
  /\ form.wingSurfaceArea = <<"2", "x">>
  /\ Le(parseFloat(form.aircraftWeight), Zero)

(***************************************************************************)
(* FlightBoundsSelector, slider variant: four positions in percent of the  *)
(* recording, turned into row indices when the window is set               *)
(***************************************************************************)
Hundred == Lit(100, 0)

SliderNames == {"flightStart", "flightEnd", "stationaryStart", "stationaryEnd"}
SliderPositions == {Zero, Lit(50, 0), Hundred}

getActualIndex(percentage, length) ==
  FloorInt(Mul(Div(percentage, Hundred), Lit(length, 0)))

InitSelector ==
  /\ data \in UploadRecordings
  /\ bounds = Null
  /\ params \in ParamSets
  /\ coefficients = <<>>
  /\ variant = "none"
  /\ thrown = FALSE
  /\ locals = <<>>
  /\ InputsAtRest
  /\ showAnalysis = FALSE
  /\ activeTab = "visualize"

\* the selector is rendered on the visualize tab of the page
SelectorShown == ~showAnalysis /\ activeTab = "visualize" /\ data # <<>>

\* a slider is dragged, or a click on the chart moves the nearest one
MoveSlider(name, position) ==
  /\ SelectorShown
  /\ sliders' = [sliders EXCEPT ![name] = position]
  /\ UNCHANGED <<data, bounds, params, coefficients, variant, thrown, processing, locals,
                 form, times, notice, showAnalysis, activeTab>>

\* Index.handleBoundsSet, the selectors' onBoundsSet
handleBoundsSet(b) ==
  /\ bounds' = b
  /\ showAnalysis' = TRUE

handleSetBounds_slider ==
  /\ SelectorShown
  /\ handleBoundsSet([name \in SliderNames |-> getActualIndex(sliders[name], Len(data))])
  /\ variant' = "slider"
  /\ UNCHANGED <<data, params, coefficients, thrown, processing, locals, form, sliders, times, notice, activeTab>>

\* back from the analysis: the tabs, and the selector in them, are mounted anew
handleBackToVisualization ==
  /\ showAnalysis
  /\ showAnalysis' = FALSE
  /\ activeTab' = "visualize"
  /\ sliders' = DefaultSliders
  /\ times' = DefaultTimes
  /\ UNCHANGED <<data, bounds, params, coefficients, variant, thrown, processing, locals, form, notice>>

NextSlider ==
  \/ \E name \in SliderNames, position \in SliderPositions : MoveSlider(name, position)
  \/ handleSetBounds_slider
  \/ handleBackToVisualization

SpecSlider == InitSelector /\ [][NextSlider]_vars

(***************************************************************************)
(* FlightBoundsSelector, the two time-input variants: a start and an end   *)
(* time are typed and turned into row indices when the window is set       *)
(***************************************************************************)
TimeTexts ==
  {<<"0">>, <<"1">>, <<"2">>, <<"0", ".", "5">>, <<"-", "1">>, <<"a", "b", "c">>,
   <<"5", "0", "0", "0">>, <<"9", "0", "0", "0">>}

\* onChange: parseFloat(e.target.value) || 0
SetStartTime(text) ==
  /\ SelectorShown
  /\ times' = [times EXCEPT !.startTime = Or(parseFloat(text), Zero)]
  /\ UNCHANGED <<data, bounds, params, coefficients, variant, thrown, processing, locals,
                 form, sliders, notice, showAnalysis, activeTab>>

SetEndTime(text) ==
  /\ SelectorShown
  /\ times' = [times EXCEPT !.endTime = Or(parseFloat(text), Zero)]
  /\ UNCHANGED <<data, bounds, params, coefficients, variant, thrown, processing, locals,
                 form, sliders, notice, showAnalysis, activeTab>>

\* the forward scan: the first row at or after the target, row 0 if there is none
StartIndexFor(d, target) ==
  LET hits == {i \in 1..Len(d) : Ge(d[i].timestamp, target)}
  IN IF hits = {} THEN 0 ELSE (CHOOSE i \in hits : \A j \in hits : i <= j) - 1

\* the backward scan: the last row at or before the target, the last row if none
EndIndexFor(d, target) ==
  LET hits == {i \in 1..Len(d) : Le(d[i].timestamp, target)}
  IN IF hits = {} THEN Len(d) - 1 ELSE (CHOOSE i \in hits : \A j \in hits : i >= j) - 1

handleSetBounds_time ==
  /\ SelectorShown
  /\ variant' = "time-input"
  /\ IF Ge(times.startTime, times.endTime)
     THEN /\ notice' = "alert"
          /\ UNCHANGED <<bounds, showAnalysis>>
     ELSE LET firstTimestamp == data[1].timestamp
              targetStartTime == Add(firstTimestamp, times.startTime)
              targetEndTime == Add(firstTimestamp, times.endTime)
          IN /\ handleBoundsSet([flightStart |-> StartIndexFor(data, targetStartTime),
                                 flightEnd |-> EndIndexFor(data, targetEndTime),
                                 stationaryStart |-> 0, stationaryEnd |-> 0])
             /\ UNCHANGED notice
  /\ UNCHANGED <<data, params, coefficients, thrown, processing, locals, form, sliders, times, activeTab>>

\* the duration of the recording in seconds
totalDuration(d) ==
  IF Len(d) > 0 THEN Div(Sub(d[Len(d)].timestamp, d[1].timestamp), Thousand) ELSE Zero

\* Math.floor((percentage / 100) * data.data.length), percentage = time / totalDuration * 100
IndexOfTime(time, d) ==
  LET percentage == Mul(Div(time, totalDuration(d)), Hundred)
  IN FloorInt(Mul(Div(percentage, Hundred), Lit(Len(d), 0)))

\* a start and an end time that pass the first check only
RejectsOrder(startTime, endTime, duration) == Ge(startTime, endTime)

\* the two checks before a window is built from a start and an end time
RejectsTimes(startTime, endTime, duration) ==
  \/ Ge(startTime, endTime)
  \/ Lt(startTime, Zero) \/ Gt(endTime, duration)

handleSetBounds_offset ==
  /\ SelectorShown
  /\ variant' = "offset"
  /\ IF RejectsTimes(times.startTime, times.endTime, totalDuration(data))
     THEN /\ notice' = "alert"
          /\ UNCHANGED <<bounds, showAnalysis>>
     ELSE /\ handleBoundsSet([flightStart |-> IndexOfTime(times.startTime, data),
                              flightEnd |-> IndexOfTime(times.endTime, data),
                              stationaryStart |-> 0, stationaryEnd |-> 0])
          /\ UNCHANGED notice
  /\ UNCHANGED <<data, params, coefficients, thrown, processing, locals, form, sliders, times, activeTab>>

NextTimes ==
  \/ \E text \in TimeTexts : SetStartTime(text)
  \/ \E text \in TimeTexts : SetEndTime(text)
  \/ handleSetBounds_time
  \/ handleSetBounds_offset
  \/ handleBackToVisualization

SpecTimes == InitSelector /\ [][NextTimes]_vars

(***************************************************************************)
(* AnalyzeFlight with an editable window: the page keeps its own window,   *)
(* recalculates when it changes, and shows a toast for each outcome        *)
(***************************************************************************)
InitialBounds(d) ==
  {[flightStart |-> fs, flightEnd |-> Len(d) - 1, stationaryStart |-> 0, stationaryEnd |-> 0] :
     fs \in 0..(Len(d) - 1)}

InitPage ==
  /\ data \in UploadRecordings
  /\ bounds \in InitialBounds(data)
  /\ params \in ParamSets
  /\ coefficients = <<>>
  /\ variant = "none"
  /\ thrown = FALSE
  /\ locals = <<>>
  /\ InputsAtRest
  /\ showAnalysis = TRUE
  /\ activeTab = "visualize"

\* (index / data.data.length) * totalDuration
SecondsOfIndex(index, d) == Mul(Div(Lit(index, 0), Lit(Len(d), 0)), totalDuration(d))

\* an effect that calculates only while nothing is displayed yet
BoundsEffectOnce(b) ==
  /\ times' = [startTime |-> SecondsOfIndex(b.flightStart, data),
               endTime |-> SecondsOfIndex(b.flightEnd, data)]
  /\ locals' = IF coefficients = <<>> THEN Samples_accel(data, b, params) ELSE locals
  /\ coefficients' = Coefficients(locals')
  /\ notice' = "success"

\* the effect on [data, bounds, aircraftParams]: the time inputs follow the
\* window and the coefficients are calculated again
BoundsEffect(b) ==
  /\ times' = [startTime |-> SecondsOfIndex(b.flightStart, data),
               endTime |-> SecondsOfIndex(b.flightEnd, data)]
  /\ locals' = Samples_accel(data, b, params)
  /\ coefficients' = Coefficients(locals')
  /\ notice' = "success"

Mount ==
  /\ variant = "none"
  /\ variant' = "mounted"
  /\ BoundsEffect(bounds)
  /\ UNCHANGED <<data, bounds, params, thrown, processing, form, sliders, showAnalysis, activeTab>>

PageSetStartTime(text) ==
  /\ variant # "none"
  /\ times' = [times EXCEPT !.startTime = Or(parseFloat(text), Zero)]
  /\ UNCHANGED <<data, bounds, params, coefficients, variant, thrown, processing, locals,
                 form, sliders, notice, showAnalysis, activeTab>>

PageSetEndTime(text) ==
  /\ variant # "none"
  /\ times' = [times EXCEPT !.endTime = Or(parseFloat(text), Zero)]
  /\ UNCHANGED <<data, bounds, params, coefficients, variant, thrown, processing, locals,
                 form, sliders, notice, showAnalysis, activeTab>>

handleUpdateBounds ==
  /\ variant # "none"
  /\ variant' = "update"
  /\ IF RejectsTimes(times.startTime, times.endTime, totalDuration(data))
     THEN /\ notice' = "error"
          /\ UNCHANGED <<bounds, coefficients, locals, times>>
     ELSE LET newBounds == [flightStart |-> IndexOfTime(times.startTime, data),
                            flightEnd |-> IndexOfTime(times.endTime, data),
                            stationaryStart |-> bounds.stationaryStart,
                            stationaryEnd |-> bounds.stationaryEnd]
          IN /\ bounds' = newBounds
             /\ BoundsEffect(newBounds)
  /\ UNCHANGED <<data, params, thrown, processing, form, sliders, showAnalysis, activeTab>>

NextPage ==
  \/ Mount
  \/ \E text \in TimeTexts : PageSetStartTime(text)
  \/ \E text \in TimeTexts : PageSetEndTime(text)
  \/ handleUpdateBounds

SpecPage == InitPage /\ [][NextPage]_vars

(***************************************************************************)
(* Properties of the window selectors and of the pages                     *)
(***************************************************************************)
\* C4: every window a selector passes to onBoundsSet has flightStart <
\* flightEnd as row indices, whatever the positions or times and the recording.
C4_EmittedStartBeforeEnd ==
  bounds # Null => bounds.flightStart < bounds.flightEnd

ClampIndex(index, sampleCount) == MaxInt(0, MinInt(index, sampleCount - 1))

\* C5: in percentage mode each of the four emitted row indices is
\* floor(percentage / 100 * sampleCount) clamped into [0, sampleCount - 1],
\* so that none is ever >= sampleCount.
C5_PercentageIndexClamped ==
  [][handleSetBounds_slider =>
       \A name \in SliderNames :
         bounds'[name] = ClampIndex(getActualIndex(sliders[name], Len(data)), Len(data))]_vars

\* the entered times, taken as offsets from the first sample in the unit of
\* `scale' per timestamp unit, lie in the recording and enclose a sample
RequestInsideRecord(scale) ==
  LET first == data[1].timestamp
      last == data[Len(data)].timestamp
      lo == Add(first, Mul(times.startTime, scale))
      hi == Add(first, Mul(times.endTime, scale))
  IN /\ Ge(times.startTime, Zero)
     /\ Le(hi, last)
     /\ \E i \in 1..Len(data) : Ge(data[i].timestamp, lo) /\ Le(data[i].timestamp, hi)

\* C6: in time mode no window is emitted when an entered bound lies outside
\* [0, totalDuration] or when no sample lies inside the requested interval.
C6_OutOfRangeRequestFails ==
  [][(~showAnalysis /\ showAnalysis') =>
       IF variant' = "time-input" THEN RequestInsideRecord(One)
       ELSE RequestInsideRecord(Thousand)]_vars

\* the update asked for is one that has to be rejected: start >= end, or a
\* bound outside the duration of the recording
UpdateRejected ==
  \/ ~Lt(times.startTime, times.endTime)
  \/ Lt(times.startTime, Zero)
  \/ Gt(times.endTime, totalDuration(data))

\* C7: a rejected window update leaves the window and the coefficient series
\* computed from it exactly as they were, and the window changes only by an
\* update that is accepted.
C7_RejectedUpdateKeepsWindow ==
  [][/\ (handleUpdateBounds /\ UpdateRejected)
          => (bounds' = bounds /\ coefficients' = coefficients /\ notice' = "error")
     /\ bounds' # bounds => (handleUpdateBounds /\ ~UpdateRejected)]_vars

C7_Witness ==
  /\ variant = "update"
  /\ notice = "error"
  /\ UpdateRejected
  /\ times.endTime = Lit(9000, 0)
  /\ bounds.flightStart = 1
  /\ Len(coefficients) = 2

(***************************************************************************)
(* Channel resolution: recordings whose samples carry several of the       *)
(* candidate columns of the x axis at once                                 *)
(***************************************************************************)
ChannelKeys == <<"Linear Accel X", "linear_accel_x", "accelX">>

\* Undefined: the sample does not have the column
ChannelValues == {Undefined, Zero, Lit(2, 0), Lit(3, 0)}

\* a sample with the columns of ChannelKeys whose value is not left out
ChannelPoint(vals, i) ==
  [timestamp |-> Lit(i - 1, 3)]
    @@ [key \in {ChannelKeys[j] : j \in {c \in 1..3 : vals[c] # Undefined}} |->
          vals[CHOOSE j \in 1..3 : ChannelKeys[j] = key]]

ChannelDatasets ==
  {<<ChannelPoint(vals, 1), ChannelPoint(vals, 2)>> : vals \in [1..3 -> ChannelValues]}

WholeOfTwo == [flightStart |-> 0, flightEnd |-> 1, stationaryStart |-> 0, stationaryEnd |-> 0]

InitChannels ==
  /\ data \in ChannelDatasets
  /\ bounds = WholeOfTwo
  /\ params \in ParamSets
  /\ coefficients = <<>>
  /\ variant = "none"
  /\ thrown = FALSE
  /\ locals = <<>>
  /\ InputsAtRest
  /\ showAnalysis = TRUE
  /\ activeTab = "results"

SpecChannels == InitChannels /\ [][Next]_vars

\* the value under the first of the keys that the sample has, 0 if it has none
FirstPresent(point, keys) ==
  LET present == {j \in 1..Len(keys) : keys[j] \in DOMAIN point}
  IN IF present = {} THEN Zero
     ELSE point[keys[CHOOSE j \in present : \A k \in present : j <= k]]

\* C11: in the acceleration variant and the orientation variant the x
\* acceleration resolved for a sample is the value under the highest-priority
\* candidate key the sample has, whatever that value is (0 included), and it
\* is 0 only when the sample has none of the candidate keys.
C11_FirstPresentKeyWins ==
  variant \in {"accel", "orient"}
  => \A i \in 1..Len(locals) :
       locals[i].lin_accel[1] =
         FirstPresent(data[i], IF variant = "accel" THEN AccelKeysX ELSE OrientAccelKeys[1])


(***************************************************************************)
(* Recordings without any acceleration column, whose time column holds     *)
(* cells the uploader could not read: parseFloat gives NaN for them        *)
(***************************************************************************)
\* row i is i - 1 seconds after the first, in milliseconds, unless its time
\* cell is unreadable
GapDatasets ==
  UNION {{[i \in 1..n |-> [timestamp |-> IF i \in unreadable THEN NaN ELSE Lit(i - 1, 3)]]
            : unreadable \in SUBSET (1..n)} : n \in 1..MaxLen}

InitGaps ==
  /\ data \in GapDatasets
  /\ bounds \in {w \in Windows : w.flightStart <= w.flightEnd /\ w.flightEnd < Len(data)}
  /\ params \in ParamSets
  /\ coefficients = <<>>
  /\ variant = "none"
  /\ thrown = FALSE
  /\ locals = <<>>
  /\ InputsAtRest
  /\ showAnalysis = TRUE
  /\ activeTab = "results"

SpecGaps == InitGaps /\ [][Next]_vars

\* C12: when no acceleration channel of any sample of the window resolves
\* (every axis defaults to 0), a run of any variant does not throw and every
\* record it gives has velocity 0, CL 0 and CD 0, whatever the timestamps.
C12_UnresolvedChannelsGiveZeros ==
  (variant # "none"
     /\ \A i \in 1..Len(FlightSamples) : extractSensorData(FlightSamples[i]) = Zero3)
  => /\ ~thrown
     /\ \A i \in 1..Len(coefficients) :
          /\ coefficients[i].velocity = Zero
          /\ coefficients[i].CL = Zero
          /\ coefficients[i].CD = Zero


(***************************************************************************)
(* The end-to-end scenario: 10 samples at 100 Hz with timestamps in        *)
(* seconds, a constant forward acceleration of 2, mass 1.5, wing area 10,  *)
(* air density 1.225; every window over it, run by the variants that       *)
(* integrate the acceleration columns as they are.                         *)
(***************************************************************************)
ScenarioPoint(i) == [timestamp |-> Lit(i - 1, 0 - 2), accelX |-> Lit(2, 0)]

ScenarioData == [i \in 1..10 |-> ScenarioPoint(i)]

ScenarioWindows ==
  {[flightStart |-> fs, flightEnd |-> fe, stationaryStart |-> 0, stationaryEnd |-> 0] :
     fs \in 0..9, fe \in 0..9}

InitScenario ==
  /\ data = ScenarioData
  /\ bounds \in ScenarioWindows
  /\ params \in ParamSets
  /\ coefficients = <<>>
  /\ variant = "none"
  /\ thrown = FALSE
  /\ locals = <<>>
  /\ InputsAtRest
  /\ showAnalysis = TRUE
  /\ activeTab = "results"

NextScenario == RunAccel \/ RunTime \/ RunClamped

SpecScenario == InitScenario /\ [][NextScenario]_vars

\* |x - y| <= tol
Near(x, y, tol) == Le(Abs(Sub(x, y)), tol)

\* C13: over samples with uniform spacing dt in seconds and one acceleration
\* a, the acceleration variant and the dt-clamped variant hold the velocity
\* vector a * i * dt at step i of the window (i from 0), and the reported
\* speed is its norm: forward Euler, no decay.
C13_ForwardEuler ==
  variant \in {"accel", "clamped"}
  => \A k \in 1..Len(locals) :
       LET a == extractSensorData(data[1])
           dt == Sub(data[2].timestamp, data[1].timestamp)
           step == Mul(Lit(k - 1, 0), dt)
       IN /\ locals[k].v = <<Mul(a[1], step), Mul(a[2], step), Mul(a[3], step)>>
          /\ coefficients[k].velocity = vectorMagnitude(locals[k].v)


\* C14: in the acceleration variant's run over the scenario the speed at
\* step i of the window is 2 * i * 0.01 (0.18 at sample 9), the drag force
\* magnitude is mass * accelX = 3.0 wherever it is computed, and the lift
\* magnitude and CL are 0 up to a small tolerance at every sample.
C14_ScenarioForces ==
  variant = "accel"
  => \A k \in 1..Len(locals) :
       /\ coefficients[k].velocity = Mul(Lit(2, 0 - 2), Lit(k - 1, 0))
       /\ Near(coefficients[k].CL, Zero, Lit(1, 0 - 2))
       /\ k > 1 => /\ "D_mag" \in DOMAIN locals[k]
                   /\ Near(locals[k].D_mag, Lit(3, 0), Lit(1, 0 - 3))
                   /\ Near(locals[k].L_mag, Zero, Lit(1, 0 - 3))

\* the whole scenario has been run: sample 9 moves at 0.18 and its force has
\* been decomposed
C14_Witness ==
  /\ variant = "accel"
  /\ Len(locals) = 10
  /\ coefficients[10].velocity = Lit(18, 0 - 2)
  /\ locals[10].D_mag = Lit(3, 0)


\* C15 as stated: in the acceleration variant's run over the whole scenario
\* the CD of the record at sample 9 is approximately 150.8.
C15_ScenarioDragCoefficient150 ==
  (variant = "accel" /\ Len(coefficients) = 10)
  => Near(coefficients[10].CD, Lit(1508, 0 - 1), One)

\* C15, amended: in the acceleration variant's run over the whole scenario
\* the CD of the record at sample 9, D_mag / (0.5 * airDensity * speed^2 *
\* wingSurfaceArea + 1e-8) = 3.0 / 0.19845, is approximately 15.12.
C15_ScenarioDragCoefficient ==
  (variant = "accel" /\ Len(coefficients) = 10)
  => Near(coefficients[10].CD, Lit(1512, 0 - 2), Lit(5, 0 - 2))

\* the record at sample 9 of the whole scenario carries a drag coefficient
C15_Witness ==
  /\ variant = "accel"
  /\ bounds.flightStart = 0
  /\ bounds.flightEnd = 9
  /\ Gt(coefficients[10].CD, Zero)
  /\ Gt(coefficients[10].dynamicPressure, Zero)


\* C16: wherever a variant decomposes the force F = mass * a of a moving
\* sample, the drag is the projection of F onto the velocity, the lift is
\* F - drag, so drag + lift = F and the lift is perpendicular to the
\* velocity (an acceleration along the velocity gives lift 0), in every
\* variant, the quaternion variant included. Tolerances are relative to the
\* size of the force.
C16_DragIsProjectionLiftIsRest ==
  \A i \in 1..Len(locals) :
    ("D_vec" \in DOMAIN locals[i] /\ Gt(vectorMagnitude(locals[i].v), Zero))
    => LET F == locals[i].F_aero
           v == locals[i].v
           D == locals[i].D_vec
           L == locals[i].L_vec
           tol == Mul(Lit(1, 0 - 2), Add(vectorMagnitude(F), One))
           along == Div(dotProduct(F, v), dotProduct(v, v))
       IN /\ \A j \in 1..3 : Near(Add(D[j], L[j]), F[j], tol)
          /\ \A j \in 1..3 : Near(D[j], Mul(along, v[j]), tol)
          /\ Le(Abs(dotProduct(L, v)), Mul(tol, vectorMagnitude(v)))


(***************************************************************************)
(* The page over recordings that accelerate slowly, so that the speed      *)
(* stays below the variants' minimum-speed gates                           *)
(***************************************************************************)
SlowKinds == {"fwd", "slow"}

InitSlow ==
  /\ data \in DatasetsOf(SlowKinds)
  /\ bounds \in Windows
  /\ params \in ParamSets
  /\ coefficients = <<>>
  /\ variant = "none"
  /\ thrown = FALSE
  /\ locals = <<>>
  /\ InputsAtRest
  /\ showAnalysis = TRUE
  /\ activeTab = "results"

SpecSlow == InitSlow /\ [][Next]_vars

\* C17: every record of every variant, the records below the minimum-speed
\* gate included, carries dynamicPressure = 0.5 * airDensity * velocity^2 for
\* the velocity it reports (up to rounding).
C17_DynamicPressureOfReportedSpeed ==
  \A i \in 1..Len(coefficients) :
    LET q == Mul(Mul(Half, params.airDensity),
                 Mul(coefficients[i].velocity, coefficients[i].velocity))
    IN Near(coefficients[i].dynamicPressure, q, Mul(Lit(1, 0 - 2), q))


RECURSIVE LowPassLoop(_, _, _)
\* filteredData[i] = alpha * data[i] + (1 - alpha) * filteredData[i - 1]
LowPassLoop(values, alpha, filteredData) ==
  IF Len(filteredData) = Len(values) THEN filteredData
  ELSE LET i == Len(filteredData) + 1
       IN LowPassLoop(values, alpha,
                      Append(filteredData,
                             Add(Mul(alpha, values[i]),
                                 Mul(Sub(One, alpha), filteredData[i - 1]))))

lowPassFilter(values, cutoff) ==
  IF Len(values) = 0 THEN <<>> ELSE LowPassLoop(values, cutoff, <<values[1]>>)

ConstantValues ==
  {Zero, One, Lit(0 - 1, 0), Lit(1, 0 - 1), Lit(3, 0), Lit(1511, 0 - 2), Lit(2449, 0 - 4),
   Lit(3333, 0 - 4), Lit(0 - 7777, 0), Lit(1224, 0), Lit(1, 8), Lit(1, 0 - 8),
   Half, Lit(0 - 2, 0), Lit(9999, 0), Lit(6125, 0 - 6)}

\* cutoffHz and sampleRate: the two settings the variants use, a cut-off of 0
\* (alpha 1) and a cut-off at the sample rate (alpha next to 0)
FilterSettings ==
  {<<Lit(25, 0 - 1), Lit(100, 0)>>, <<One, Lit(100, 0)>>, <<Zero, Lit(100, 0)>>,
   <<Lit(100, 0), Lit(100, 0)>>}

LowPassCutoffs == {Zero, Lit(1, 0 - 1), Half, One}

InitFilter ==
  /\ data = <<>>
  /\ bounds = [flightStart |-> 0, flightEnd |-> 0, stationaryStart |-> 0, stationaryEnd |-> 0]
  /\ params \in ParamSets
  /\ coefficients = <<>>
  /\ variant = "none"
  /\ thrown = FALSE
  /\ locals \in {[i \in 1..n |-> Coefficient(Lit(i - 1, 3), c, Neg(c), Zero, Zero)] :
                   n \in 1..MaxLen, c \in ConstantValues}
  /\ InputsAtRest
  /\ showAnalysis = TRUE
  /\ activeTab = "results"

\* the filter step of the quaternion and orientation variants
SmoothButterworth ==
  /\ variant = "none"
  /\ \E s \in FilterSettings : coefficients' = ApplyFilter(locals, s[1], s[2])
  /\ variant' = "butterworth"
  /\ UNCHANGED <<data, bounds, params, thrown, locals, ui>>

SmoothLowPass ==
  /\ variant = "none"
  /\ \E cutoff \in LowPassCutoffs :
       LET filteredCL == lowPassFilter([i \in 1..Len(locals) |-> locals[i].CL], cutoff)
           filteredCD == lowPassFilter([i \in 1..Len(locals) |-> locals[i].CD], cutoff)
       IN coefficients' = [i \in 1..Len(locals) |->
                             [locals[i] EXCEPT !.CL = filteredCL[i], !.CD = filteredCD[i]]]
  /\ variant' = "lowpass"
  /\ UNCHANGED <<data, bounds, params, thrown, locals, ui>>

NextFilter == SmoothButterworth \/ SmoothLowPass

SpecFilter == InitFilter /\ [][NextFilter]_vars

handleUpdateBounds_setBounds ==
  /\ variant = "idle"
  /\ IF RejectsTimes(times.startTime, times.endTime, totalDuration(data))
     THEN /\ notice' = "error"
          /\ UNCHANGED <<bounds, variant>>
     ELSE /\ bounds' = [flightStart |-> IndexOfTime(times.startTime, data),
                        flightEnd |-> IndexOfTime(times.endTime, data),
                        stationaryStart |-> bounds.stationaryStart,
                        stationaryEnd |-> bounds.stationaryEnd]
          /\ notice' = "updated"
          /\ variant' = "pending"
  /\ UNCHANGED <<data, params, coefficients, thrown, processing, locals, form, sliders, times,
                 showAnalysis, activeTab>>

useEffect_bounds ==
  /\ variant \in {"none", "pending"}
  /\ variant' = "idle"
  /\ BoundsEffect(bounds)
  /\ UNCHANGED <<data, bounds, params, thrown, processing, form, sliders, showAnalysis, activeTab>>

IdleSetStartTime(text) == variant = "idle" /\ PageSetStartTime(text)

IdleSetEndTime(text) == variant = "idle" /\ PageSetEndTime(text)

NextRecalc ==
  \/ useEffect_bounds
  \/ \E text \in TimeTexts : IdleSetStartTime(text)
  \/ \E text \in TimeTexts : IdleSetEndTime(text)
  \/ handleUpdateBounds_setBounds

SpecRecalc == InitPage /\ [][NextRecalc]_vars

SeriesValues == {Zero, One, Lit(3, 0), Lit(2449, 0 - 4), Lit(0 - 2, 0), Lit(1511, 0 - 2)}

RawSeries == UNION {[1..n -> SeriesValues] : n \in 1..MaxLen}

InitSeries ==
  /\ data = <<>>
  /\ bounds = [flightStart |-> 0, flightEnd |-> 0, stationaryStart |-> 0, stationaryEnd |-> 0]
  /\ params \in ParamSets
  /\ coefficients = <<>>
  /\ variant = "none"
  /\ thrown = FALSE
  /\ locals \in {[i \in 1..Len(raw) |->
                    Coefficient(Lit(i - 1, 3), raw[i], raw[Len(raw) + 1 - i], Zero, Zero)] :
                   raw \in RawSeries}
  /\ InputsAtRest
  /\ showAnalysis = TRUE
  /\ activeTab = "results"

\* butterworthFilter(CLValues), butterworthFilter(CDValues) and the final map
SmoothDefault ==
  /\ variant = "none"
  /\ coefficients' = ApplyFilter(locals, Lit(25, 0 - 1), Lit(100, 0))
  /\ variant' = "smoothed"
  /\ UNCHANGED <<data, bounds, params, thrown, locals, ui>>

SpecSeries == InitSeries /\ [][SmoothDefault]_vars

DefaultAlpha == FilterAlpha(Lit(25, 0 - 1), Lit(100, 0))

\* C22: butterworthFilter is the single-pole recurrence on the raw series:
\* the output has the length of the input, filtered[0] = raw[0], and for
\* i >= 1 filtered[i] = alpha * filtered[i - 1] + (1 - alpha) * raw[i] with
\* raw[i] the unfiltered input value; the input series is left as it was.
C22_SinglePoleRecurrence ==
  /\ [](variant = "smoothed"
          => /\ Len(coefficients) = Len(locals)
             /\ coefficients[1].CL = locals[1].CL
             /\ coefficients[1].CD = locals[1].CD
             /\ \A i \in 2..Len(coefficients) :
                  /\ coefficients[i].CL
                       = Add(Mul(DefaultAlpha, coefficients[i - 1].CL),
                             Mul(Sub(One, DefaultAlpha), locals[i].CL))
                  /\ coefficients[i].CD
                       = Add(Mul(DefaultAlpha, coefficients[i - 1].CD),
                             Mul(Sub(One, DefaultAlpha), locals[i].CD)))
  /\ [][locals' = locals]_vars

\* a series of three different values has been smoothed and its third value
\* has moved
C22_Witness ==
  /\ variant = "smoothed"
  /\ Len(locals) = 3
  /\ locals[1].CL = Lit(3, 0)
  /\ locals[2].CL = Zero
  /\ locals[3].CL = One
  /\ coefficients[3].CL # locals[3].CL
  /\ coefficients[2].CL # locals[2].CL


(***************************************************************************)
(* dataProcessing.ts: calculateTimeDelta, calculateEuler, calculateRK4 and *)
(* processData. csvContent is a rendering of processedData and is left out *)
(* of the result.                                                          *)
(***************************************************************************)
calculateMagnitude(x, y, z) == Sqrt(Add(Add(Mul(x, x), Mul(y, y)), Mul(z, z)))

\* a time difference that is always divided by 1000
calculateTimeDeltaMillis(current, previous) ==
  Div(Sub(current.timestamp, previous.timestamp), Lit(1000, 0))

\* timeDiff > 1000 ? timeDiff / 1000 : timeDiff
calculateTimeDelta(current, previous) ==
  LET timeDiff == Sub(current.timestamp, previous.timestamp)
  IN IF Gt(timeDiff, Lit(1000, 0)) THEN Div(timeDiff, Lit(1000, 0)) ELSE timeDiff

FirstProcessed(firstPoint) ==
  [instantAccel |-> calculateMagnitude(Get(firstPoint, "accelX"), Get(firstPoint, "accelY"),
                                       Get(firstPoint, "accelZ")),
   velocityX |-> Zero, velocityY |-> Zero, velocityZ |-> Zero, speed |-> Zero] @@ firstPoint

\* accelZ = current.accelZ - 9.81 when options.gravityCompensation
CompensatedZ(current, opts) ==
  IF opts.gravityCompensation THEN Sub(Get(current, "accelZ"), Lit(981, 0 - 2))
  ELSE Get(current, "accelZ")

ProcessedPoint(current, instantAccel, velocityX, velocityY, velocityZ) ==
  [instantAccel |-> instantAccel, velocityX |-> velocityX, velocityY |-> velocityY,
   velocityZ |-> velocityZ,
   speed |-> calculateMagnitude(velocityX, velocityY, velocityZ)] @@ current

RECURSIVE EulerLoop(_, _, _)
EulerLoop(points, opts, processed) ==
  IF Len(processed) = Len(points) THEN processed
  ELSE LET i == Len(processed) + 1
           current == points[i]
           previous == processed[i - 1]
           dt == calculateTimeDelta(current, points[i - 1])
           accelX == Get(current, "accelX")
           accelY == Get(current, "accelY")
           accelZ == CompensatedZ(current, opts)
       IN EulerLoop(points, opts,
                    Append(processed,
                           ProcessedPoint(current, calculateMagnitude(accelX, accelY, accelZ),
                                          Add(previous.velocityX, Mul(accelX, dt)),
                                          Add(previous.velocityY, Mul(accelY, dt)),
                                          Add(previous.velocityZ, Mul(accelZ, dt)))))

calculateEuler(points, opts) ==
  IF Len(points) = 0 THEN <<>> ELSE EulerLoop(points, opts, <<FirstProcessed(points[1])>>)

\* an increment that counts the two middle stages once
RK4IncrementUnweighted(dt, k) ==
  Mul(Div(dt, Lit(6, 0)), Add(Add(Add(k, k), k), k))

\* (dt / 6) * (k1 + 2 * k2 + 2 * k3 + k4) with the four stages equal to k
RK4Increment(dt, k) ==
  Mul(Div(dt, Lit(6, 0)), Add(Add(Add(k, Mul(Two, k)), Mul(Two, k)), k))

RECURSIVE RK4Loop(_, _, _)
RK4Loop(points, opts, processed) ==
  IF Len(processed) = Len(points) THEN processed
  ELSE LET i == Len(processed) + 1
           current == points[i]
           prevProcessed == processed[i - 1]
           dt == calculateTimeDelta(current, points[i - 1])
           accelX == Get(current, "accelX")
           accelY == Get(current, "accelY")
           accelZ == CompensatedZ(current, opts)
       IN RK4Loop(points, opts,
                  Append(processed,
                         ProcessedPoint(current, calculateMagnitude(accelX, accelY, accelZ),
                                        Add(prevProcessed.velocityX, RK4Increment(dt, accelX)),
                                        Add(prevProcessed.velocityY, RK4Increment(dt, accelY)),
                                        Add(prevProcessed.velocityZ, RK4Increment(dt, accelZ)))))

calculateRK4(points, opts) ==
  IF Len(points) = 0 THEN <<>> ELSE RK4Loop(points, opts, <<FirstProcessed(points[1])>>)

\* rawData stands for the uploaded RawData: its rows
processData(rawData, opts) ==
  [rawData |-> rawData,
   processedData |-> IF opts.integrationMethod = "rk4" THEN calculateRK4(rawData, opts)
                     ELSE calculateEuler(rawData, opts)]

\* the dt of every step of the loops, with the timestamp difference it was
\* computed from
TimeSteps(points) ==
  [i \in 1..(Len(points) - 1) |->
     [timeDiff |-> Sub(points[i + 1].timestamp, points[i].timestamp),
      dt |-> calculateTimeDelta(points[i + 1], points[i])]]

\* sample spacings of a recording whose timestamps are seconds (10 ms and
\* 2 s) and of one whose timestamps are milliseconds (500 ms and 2 s)
Spacings(unit) ==
  IF unit = "s" THEN {Lit(1, 0 - 2), Lit(2, 0)} ELSE {Lit(5, 2), Lit(2, 3)}

ImuAccels ==
  {[accelX |-> Lit(2, 0), accelY |-> Zero, accelZ |-> Lit(981, 0 - 2)],
   [accelX |-> Lit(5, 0 - 2), accelY |-> Lit(1, 0 - 1), accelZ |-> Zero]}

RECURSIVE Timestamps(_)
\* non-decreasing timestamps built from a sequence of spacings
Timestamps(gaps) ==
  IF Len(gaps) = 0 THEN <<Zero>>
  ELSE LET before == Timestamps(SubSeq(gaps, 1, Len(gaps) - 1))
       IN Append(before, Add(before[Len(before)], gaps[Len(gaps)]))

ImuDatasets ==
  UNION {{[i \in 1..n |-> [timestamp |-> Timestamps(gaps)[i]] @@ accels[i]] :
            gaps \in [1..(n - 1) -> Spacings(unit)], accels \in [1..n -> ImuAccels]} :
         n \in 1..MaxLen, unit \in {"s", "ms"}}

OptionSets ==
  [integrationMethod : {"euler", "rk4"}, gravityCompensation : BOOLEAN]

InitProcessData ==
  /\ data \in ImuDatasets
  /\ bounds = Null
  /\ params = Null
  /\ coefficients = <<>>
  /\ variant = "none"
  /\ thrown = FALSE
  /\ locals = <<>>
  /\ form = DefaultForm
  /\ sliders = DefaultSliders
  /\ times = DefaultTimes
  /\ notice = "none"
  /\ showAnalysis = FALSE
  /\ activeTab = "visualize"
  /\ processedData = Null
  /\ isProcessing = FALSE
  /\ options \in OptionSets
  /\ pendingProcess = <<>>

\* processData(data, options) applied to the loaded recording
ApplyProcessData ==
  /\ processedData = Null
  /\ processedData' = processData(data, options)
  /\ locals' = TimeSteps(data)
  /\ UNCHANGED <<data, bounds, params, coefficients, variant, thrown, form, sliders, times,
                 notice, showAnalysis, activeTab, isProcessing, options, pendingProcess>>

SpecProcessData == InitProcessData /\ [][ApplyProcessData]_vars

\* C23: the unit conversion of the time step is uniform over a recording:
\* either every step of a run uses timeDiff / 1000 or every step uses the raw
\* difference; two steps of one recording are never scaled differently.
C23_UniformTimeScale ==
  processedData # Null
  => \A i, j \in 1..Len(locals) :
       (locals[i].dt = locals[i].timeDiff) <=> (locals[j].dt = locals[j].timeDiff)


(***************************************************************************)
(* Drift suppression of the quaternion and orientation variants            *)
(***************************************************************************)
\* velocity += accel_earth * dt
IntegratedQuat(prev, step) ==
  <<Add(prev.v[1], Mul(step.accel_earth[1], step.dt)),
    Add(prev.v[2], Mul(step.accel_earth[2], step.dt)),
    Add(prev.v[3], Mul(step.accel_earth[3], step.dt))>>

\* velocity += 0.5 * (accel_earth + prevAccel_earth) * dt
IntegratedOrient(prev, step) ==
  <<Add(prev.v[1], Mul(Mul(Half, Add(step.accel_earth[1], prev.accel_earth[1])), step.dt)),
    Add(prev.v[2], Mul(Mul(Half, Add(step.accel_earth[2], prev.accel_earth[2])), step.dt)),
    Add(prev.v[3], Mul(Mul(Half, Add(step.accel_earth[3], prev.accel_earth[3])), step.dt))>>

\* the step's velocity is the integrated one times a factor in (0, 1) when
\* low, the integrated one itself otherwise
DecayedIff(low, integrated, factor, v) ==
  IF low
  THEN /\ Gt(factor, Zero)
       /\ Lt(factor, One)
       /\ v = Scale(integrated, factor)
       /\ (IsFinite(vectorMagnitude(integrated))
             => Le(vectorMagnitude(v), vectorMagnitude(integrated)))
  ELSE v = integrated

OtherMethod ==
  IF options.integrationMethod = "rk4" THEN calculateEuler(data, options)
  ELSE calculateRK4(data, options)

NearRel(x, y) == Near(x, y, Mul(Lit(2, 0 - 3), Abs(y)))

VelocityFields == {"velocityX", "velocityY", "velocityZ", "speed"}

AgreeUpToRounding(mine, other) ==
  /\ Len(mine) = Len(other)
  /\ \A i \in 1..Len(other) :
       /\ DOMAIN mine[i] = DOMAIN other[i]
       /\ \A f \in DOMAIN other[i] \ VelocityFields : mine[i][f] = other[i][f]
       /\ \A f \in VelocityFields : NearRel(mine[i][f], other[i][f])

TiedDatasets ==
  UNION {{[i \in 1..n |-> [Point(ks[i], i) EXCEPT !.timestamp = Timestamps(gaps)[i]]] :
            gaps \in [1..(n - 1) -> {Zero, Thousand}], ks \in [1..n -> {"fwd", "turn"}]} :
         n \in 1..MaxLen}

InitTies ==
  /\ data \in TiedDatasets
  /\ bounds \in Windows
  /\ params \in ParamSets
  /\ coefficients = <<>>
  /\ variant = "none"
  /\ thrown = FALSE
  /\ locals = <<>>
  /\ InputsAtRest
  /\ showAnalysis = TRUE
  /\ activeTab = "results"

SpecTies == InitTies /\ [][RunTime \/ RunAccel]_vars

\* C26: selecting the window by timestamps is selecting it by row indices:
\* when the index window [flightStart, flightEnd] is turned into the
\* timestamps of its two end rows and the samples with timestamp in
\* [startTime, endTime] are kept, the kept samples are exactly rows
\* flightStart..flightEnd, for every recording whose timestamps do not
\* decrease (equal consecutive timestamps allowed).
C26_TimeFilterSelectsWindowRows ==
  (variant = "time" /\ ~thrown /\ ValidFlightWindow)
  => /\ Len(locals) = Len(FlightSamples)
     /\ \A i \in 1..Len(locals) :
          /\ locals[i].timestamp = FlightSamples[i].timestamp
          /\ locals[i].lin_accel = extractSensorData(FlightSamples[i])

\* the same statement on the recordings whose timestamps strictly increase
C26_HoldsWithoutTies ==
  (\A i \in 2..Len(data) : Gt(data[i].timestamp, data[i - 1].timestamp))
  => C26_TimeFilterSelectsWindowRows


(***************************************************************************)
(* The processing page: Index of part_002 with ProcessingControls.         *)
(* handleProcess is asynchronous: the click calls onProcessingStart and    *)
(* starts a 100 ms timer; the rest of the function runs when the timer     *)
(* fires, with the data and options of the render in which the button was  *)
(* clicked. Timers of equal delay fire in the order they were started.     *)
(* ProcessingControls is mounted while the visualize tab is open; its      *)
(* options start from the defaults at every mount.                         *)
(***************************************************************************)
\* runs of handleProcess that may wait on their timer at one time
MaxPending == 2

ProcessingRecordings ==
  {<<[timestamp |-> Zero, accelX |-> Lit(2, 0), accelY |-> Zero, accelZ |-> Lit(981, 0 - 2)],
     [timestamp |-> Lit(2, 0), accelX |-> Lit(2, 0), accelY |-> Zero, accelZ |-> Lit(981, 0 - 2)]>>,
   <<[timestamp |-> Zero, accelX |-> Lit(5, 0 - 2), accelY |-> Lit(1, 0 - 1), accelZ |-> Zero]>>}

ProcessingTabs == {"upload", "parameters", "visualize", "export"}

InitProcessing ==
  /\ data = <<>>
  /\ bounds = Null
  /\ params = Null
  /\ coefficients = <<>>
  /\ variant = "none"
  /\ thrown = FALSE
  /\ locals = <<>>
  /\ InputsAtRest
  /\ showAnalysis = FALSE
  /\ activeTab = "upload"

\* the options ProcessingControls holds once the open tab is tab
OptionsOnTab(tab, current) == IF tab = "visualize" THEN current ELSE DefaultOptions

Index_handleFileUploaded(d) ==
  /\ activeTab = "upload"
  /\ data' = d
  /\ processedData' = Null
  /\ activeTab' = "parameters"
  /\ UNCHANGED <<bounds, params, coefficients, variant, thrown, locals, form, sliders, times,
                 notice, showAnalysis, isProcessing, options, pendingProcess>>

Index_handleParametersSubmit(p) ==
  /\ activeTab = "parameters"
  /\ params' = p
  /\ activeTab' = "visualize"
  /\ UNCHANGED <<data, bounds, coefficients, variant, thrown, locals, form, sliders, times,
                 notice, showAnalysis, processing>>

ProcessingTabEnabled(tab) ==
  CASE tab = "upload" -> TRUE
    [] tab = "parameters" -> data # <<>>
    [] tab = "visualize" -> data # <<>> /\ params # Null
    [] tab = "export" -> processedData # Null

Index_setActiveTab(tab) ==
  /\ ProcessingTabEnabled(tab)
  /\ activeTab' = tab
  /\ options' = OptionsOnTab(tab, options)
  /\ UNCHANGED <<data, bounds, params, coefficients, variant, thrown, locals, form, sliders,
                 times, notice, showAnalysis, processedData, isProcessing, pendingProcess>>

ControlsMounted == activeTab = "visualize" /\ data # <<>>

\* onValueChange of the integration method, onCheckedChange of the switch
setOptions(next) ==
  /\ ControlsMounted
  /\ options' = next
  /\ UNCHANGED <<data, bounds, params, coefficients, variant, thrown, locals, form, sliders,
                 times, notice, showAnalysis, activeTab, processedData, isProcessing,
                 pendingProcess>>

\* the click: onProcessingStart(), then the timer is started
handleProcess ==
  /\ ControlsMounted
  /\ Len(pendingProcess) < MaxPending
  /\ isProcessing' = TRUE
  /\ pendingProcess' = Append(pendingProcess, [data |-> data, options |-> options])
  /\ UNCHANGED <<data, bounds, params, coefficients, variant, thrown, locals, form, sliders,
                 times, notice, showAnalysis, activeTab, processedData, options>>

\* Index.handleDataProcessed
handleDataProcessed(result) ==
  /\ processedData' = result
  /\ isProcessing' = FALSE
  /\ activeTab' = "export"

\* the timer fires and processData returns
handleProcess_completes ==
  /\ pendingProcess # <<>>
  /\ handleDataProcessed(processData(Head(pendingProcess).data, Head(pendingProcess).options))
  /\ pendingProcess' = Tail(pendingProcess)
  /\ options' = DefaultOptions
  /\ notice' = "success"
  /\ UNCHANGED <<data, bounds, params, coefficients, variant, thrown, locals, form, sliders,
                 times, showAnalysis>>

\* the timer fires and processData throws (generateCSV joins every row into
\* one string, a RangeError when the string outgrows the engine's limit):
\* the catch block logs and toasts
handleProcess_catches ==
  /\ pendingProcess # <<>>
  /\ pendingProcess' = Tail(pendingProcess)
  /\ notice' = "error"
  /\ UNCHANGED <<data, bounds, params, coefficients, variant, thrown, locals, form, sliders,
                 times, showAnalysis, activeTab, processedData, isProcessing, options>>

TimerFires == handleProcess_catches \/ handleProcess_completes

NextProcessing ==
  \/ \E d \in ProcessingRecordings : Index_handleFileUploaded(d)
  \/ \E p \in ParamSets : Index_handleParametersSubmit(p)
  \/ \E tab \in ProcessingTabs : Index_setActiveTab(tab)
  \/ \E next \in OptionSets : setOptions(next)
  \/ handleProcess
  \/ handleProcess_completes
  \/ handleProcess_catches

SpecProcessing == InitProcessing /\ [][NextProcessing]_vars

\* a started timer fires
SpecProcessingFair == SpecProcessing /\ WF_vars(TimerFires)

\* C27: whenever processedData is stored it was computed from the rawData
\* that is loaded now: an upload between the click on Process Data and the
\* end of its delay cannot leave the result of the old recording next to
\* the new rawData.
C27_ResultOfLoadedRecording ==
  processedData # Null => processedData.rawData = data

\* C28: every processing run that sets isProcessing to true is eventually
\* followed by isProcessing false, whether processData returns or throws.
C28_BusyFlagCleared ==
  isProcessing ~> ~isProcessing


(***************************************************************************)
(* The Index workflow from upload to analysis. FileUploader reads the file *)
(* with a FileReader, so onFileUploaded may arrive whatever the page shows *)
(* by then.                                                                *)
(***************************************************************************)
\* an upload that keeps the stored window and the analysis view
FileReadKeepsWindow(d) ==
  /\ data' = d
  /\ activeTab' = "parameters"
  /\ UNCHANGED <<bounds, showAnalysis>>

\* reader.onload: onFileUploaded(parsedData) is Index.handleFileUploaded
FileRead(d) ==
  /\ data' = d
  /\ bounds' = Null
  /\ showAnalysis' = FALSE
  /\ activeTab' = "parameters"

reader_onload(d) ==
  /\ FileRead(d)
  /\ UNCHANGED <<params, coefficients, variant, thrown, processing, locals, form, sliders,
                 times, notice>>

NextWorkflow ==
  \/ \E d \in UploadRecordings : reader_onload(d)
  \/ \E tab \in {"upload", "parameters", "visualize", "results"} : SelectTab(tab)
  \/ handleSubmit
  \/ \E name \in SliderNames, position \in SliderPositions : MoveSlider(name, position)
  \/ handleSetBounds_slider
  \/ handleBackToVisualization

SpecWorkflow == InitIndex /\ [][NextWorkflow]_vars

WithinRawRange(value, f) ==
  /\ \E j \in 1..Len(locals) : Le(locals[j][f], value)
  /\ \E k \in 1..Len(locals) : Le(value, locals[k][f])

\* C30: for strictly positive aircraft parameters and finite sample values
\* every output record has CL >= 0 and CD >= 0 in every variant, before and
\* after smoothing, and every smoothed value lies between the minimum and
\* the maximum of the raw series.
C30_CoefficientsNonNegativeInRange ==
  /\ \A i \in 1..Len(locals) : Ge(locals[i].CL, Zero) /\ Ge(locals[i].CD, Zero)
  /\ \A i \in 1..Len(coefficients) :
       /\ Ge(coefficients[i].CL, Zero)
       /\ Ge(coefficients[i].CD, Zero)
       /\ WithinRawRange(coefficients[i].CL, "CL")
       /\ WithinRawRange(coefficients[i].CD, "CD")

====
